---- MODULE Spec2Model ----
(***************************************************************************)
(* A model of the retrieval / Text-to-SQL core of RAG_test:                *)
(*   - TextToSQLEngine (core/text_to_sql_engine.py): punctuation           *)
(*     normalisation, SQL validation, and the bounded self-repair loop of  *)
(*     run_text_to_sql_flow;                                               *)
(*   - SearchEngine.search (core/search_engine.py): recall, fusion,        *)
(*     re-ranking;                                                         *)
(*   - RAGPipeline._prepare_context (engine.py): context assembly.         *)
(*                                                                         *)
(* A Python str is a sequence of characters; a character is a one-letter   *)
(* TLA+ string, and a non-ASCII character is named by its code point       *)
(* ("U+FF1B" is the full-width semicolon).  Long texts (chunk texts) are   *)
(* run-length encoded: a sequence of runs [ch, n].                         *)
(***************************************************************************)
EXTENDS Integers, Sequences, FiniteSets, TLC

VARIABLES
    \* ---- TextToSQLEngine and one run_text_to_sql_flow call
    db_engine,              \* self.db_engine: TRUE = an engine, FALSE = None
    pc,                     \* position of the call in run_text_to_sql_flow
    standalone_query,       \* result of rewrite_query_with_history
    response_from_engine,   \* the LM's last reply (stripped)
    generated_sql,          \* the candidate last handed to _execute_sql
    attempt,                \* the for-loop counter
    error_message,          \* str(e) of the last failed execution
    result,                 \* the record the call returned
    execLog,                \* history: every _execute_sql call of this run
    validated,              \* history: the last string _validate_sql accepted
    repairCalls,            \* history: _fix_sql_with_error calls of this run
    \* ---- _validate_sql applied as a function
    v_sql, v_result,
    \* ---- SearchEngine and one search call
    faiss_index, chunk_count, bm25_index, reranker,
    s_pc, s_k, faiss_indices, bm25_indices, all_indices, recalled_chunks,
    s_result,
    legsRun,                \* history: recall legs this search has run
    rerankCalls,            \* history: reranker.predict calls of this search
    \* ---- the two ways search ends, applied to one fused list
    r_recalled, r_k, r_plain, r_reranked, r_done,
    \* ---- RAGPipeline._prepare_context
    retrieved_chunks, c_pc, context_str, sources_list, included,
    \* ---- one query-rewriting call (rewrite_query_with_history or
    \*      RAGPipeline._rewrite_query)
    rw_fn, rw_query, rw_history, rw_pc, rw_messages, rw_result,
    rw_lm_calls,            \* history: completion calls of this rewriting call
    \* ---- one RAGPipeline.execute call
    g_query, g_history, g_pc, g_rewritten, g_chunks, g_context, g_sources,
    g_messages, g_result,
    g_failed,               \* history: the calls of this turn that failed
    \* ---- the schema cache (core/schema_fetcher.py)
    cache_file,             \* contents of CACHE_FILE_PATH, or Absent
    db_schema_live,         \* the schema the database holds at the moment
    sf_calls,               \* history: number of calls made so far
    sf_last,                \* history: what the last call saw and did
    \* ---- one HybridEngine.execute call (hybrid_engine.py)
    h_pc, h_router_out, tool_to_use, h_response, h_result,
    h_turn,                 \* history: the number of the query being served
    h_dispatch,             \* history: the engine the query was handed to
    h_sent,                 \* history: statements this call sent to the database
    \* ---- _normalize_sql_punctuation applied as a function
    n_ascii,                \* a candidate authored with half-width punctuation
    n_wide,                 \* the same candidate with full-width punctuation
    n_pc, n_result,
    \* ---- the /ask_rag session (app.py): the stored history and what a turn
    \*      sends to the language model
    ss_history,             \* session['rag_history']
    ss_sent,                \* history: the message lists of the turn's completion calls
    ss_turn,                \* history: turns served so far
    \* ---- TextToSQLEngine.db_schema over the schema cache
    db_schema_cache,        \* self._db_schema_cache
    e_last,                 \* history: what the last read of db_schema saw and did
    e_steps,                \* history: constructions and reads so far
    \* ---- concurrent requests reading db_schema
    t_pc, t_schema_str, t_ret,
    \* ---- module initialisation of app.py and the requests served after it
    a_pc, a_config, rag_pipeline, text_to_sql_engine, a_db_engine,
    a_responses,            \* history: the outcome of every request so far
    \* ---- the history list of a call, as an object on the heap
    fr_fn, fr_pc, fr_heap, fr_history, fr_messages,
    fr_before,              \* history: the list's contents when the call was made
    fr_fallback,            \* history: a completion call of this call raised
    \* ---- process_document_file (ingestion/parsers.py)
    p_elements, p_pc, semantic_blocks, final_chunks

sqlVars == <<db_engine, pc, standalone_query, response_from_engine, generated_sql,
             attempt, error_message, result, execLog, validated, repairCalls>>
valVars == <<v_sql, v_result>>
searchVars == <<faiss_index, chunk_count, bm25_index, reranker, s_pc, s_k,
                faiss_indices, bm25_indices, all_indices, recalled_chunks,
                s_result, legsRun, rerankCalls>>
rerankVars == <<r_recalled, r_k, r_plain, r_reranked, r_done>>
ctxVars == <<retrieved_chunks, c_pc, context_str, sources_list, included>>
rewriteVars == <<rw_fn, rw_query, rw_history, rw_pc, rw_messages, rw_result,
                 rw_lm_calls>>
ragVars == <<g_query, g_history, g_pc, g_rewritten, g_chunks, g_context, g_sources,
             g_messages, g_result, g_failed>>
cacheVars == <<cache_file, db_schema_live, sf_calls, sf_last>>
hybridVars == <<h_pc, h_router_out, tool_to_use, h_response, h_result, h_turn,
                h_dispatch, h_sent>>
normVars == <<n_ascii, n_wide, n_pc, n_result>>
sessVars == <<ss_history, ss_sent, ss_turn>>
memoVars == <<db_schema_cache, e_last, e_steps>>
concVars == <<t_pc, t_schema_str, t_ret>>
startVars == <<a_pc, a_config, rag_pipeline, text_to_sql_engine, a_db_engine,
               a_responses>>
frameVars ==
    <<fr_fn, fr_pc, fr_heap, fr_history, fr_messages, fr_before, fr_fallback>>
parseVars == <<p_elements, p_pc, semantic_blocks, final_chunks>>
extVars == <<sessVars, memoVars, concVars, startVars, frameVars, parseVars>>
serviceVars == <<rewriteVars, ragVars, cacheVars, hybridVars, normVars, extVars>>
vars == <<sqlVars, valVars, searchVars, rerankVars, ctxVars, serviceVars>>

\* Python's None: as a record, as a str-typed value, as an exception text
None == [none |-> TRUE]
NoneStr == <<"None">>
NoText == "None"

(***************************************************************************)
(* Python str operations, on sequences of characters                       *)
(***************************************************************************)
LowerLetters ==
    <<"a", "b", "c", "d", "e", "f", "g", "h", "i", "j", "k", "l", "m",
      "n", "o", "p", "q", "r", "s", "t", "u", "v", "w", "x", "y", "z">>
UpperLetters ==
    <<"A", "B", "C", "D", "E", "F", "G", "H", "I", "J", "K", "L", "M",
      "N", "O", "P", "Q", "R", "S", "T", "U", "V", "W", "X", "Y", "Z">>

UpperChar(c) ==
    IF \E i \in 1..26 : LowerLetters[i] = c
    THEN UpperLetters[CHOOSE i \in 1..26 : LowerLetters[i] = c]
    ELSE c

\* str.upper()
Upper(s) == IF s = <<>> THEN <<>> ELSE [i \in 1..Len(s) |-> UpperChar(s[i])]

\* the characters str.strip() removes
Whitespace == {" ", "\n", "\t"}

\* str.strip()
Strip(s) ==
    LET keep == {i \in 1..Len(s) : s[i] \notin Whitespace}
    IN  IF keep = {} THEN <<>>
        ELSE SubSeq(s, CHOOSE i \in keep : \A j \in keep : i <= j,
                       CHOOSE i \in keep : \A j \in keep : j <= i)

\* str.rstrip(';')
RStripSemicolon(s) ==
    LET keep == {i \in 1..Len(s) : s[i] # ";"}
    IN  IF keep = {} THEN <<>>
        ELSE SubSeq(s, 1, CHOOSE i \in keep : \A j \in keep : j <= i)

\* sub in s
Contains(s, sub) ==
    \E i \in 1..(Len(s) - Len(sub) + 1) : SubSeq(s, i, i + Len(sub) - 1) = sub

\* s.startswith(p), s.endswith(p)
StartsWith(s, p) == Len(s) >= Len(p) /\ SubSeq(s, 1, Len(p)) = p
EndsWith(s, p) == Len(s) >= Len(p) /\ SubSeq(s, Len(s) - Len(p) + 1, Len(s)) = p

\* s.replace(full, half), for one-character full and half
ReplaceChar(s, full, half) ==
    IF s = <<>> THEN <<>>
    ELSE [i \in 1..Len(s) |-> IF s[i] = full THEN half ELSE s[i]]

(***************************************************************************)
(* TextToSQLEngine                                                         *)
(***************************************************************************)
MAX_RETRIES == 2

\* a replacements dict without the full-width equals sign
replacementsWithoutEquals ==
    << <<"U+FF08", "(">>, <<"U+FF09", ")">>, <<"U+2018", "'">>, <<"U+2019", "'">>,
       <<"U+0060", "'">>, <<"U+201C", "\"">>, <<"U+201D", "\"">>, <<"U+FF1B", ";">>,
       <<"U+FF0C", ",">> >>

\* the replacements dict of _normalize_sql_punctuation, in insertion order:
\* full-width ( ) , left and right single quote, backtick (U+0060), left and
\* right double quote, full-width ; , =
replacements ==
    << <<"U+FF08", "(">>, <<"U+FF09", ")">>, <<"U+2018", "'">>, <<"U+2019", "'">>,
       <<"U+0060", "'">>, <<"U+201C", "\"">>, <<"U+201D", "\"">>, <<"U+FF1B", ";">>,
       <<"U+FF0C", ",">>, <<"U+FF1D", "=">> >>

RECURSIVE ApplyReplacements(_, _)
ApplyReplacements(text, n) ==
    IF n > Len(replacements) THEN text
    ELSE ApplyReplacements(ReplaceChar(text, replacements[n][1], replacements[n][2]), n + 1)

NormalizeSqlPunctuation(text) == ApplyReplacements(text, 1)

SELECT == <<"S", "E", "L", "E", "C", "T">>

forbidden ==
    << <<"I", "N", "S", "E", "R", "T">>, <<"U", "P", "D", "A", "T", "E">>,
       <<"D", "E", "L", "E", "T", "E">>, <<"D", "R", "O", "P">>,
       <<"C", "R", "E", "A", "T", "E">>, <<"A", "L", "T", "E", "R">>,
       <<"T", "R", "U", "N", "C", "A", "T", "E">>, <<"G", "R", "A", "N", "T">>,
       <<"R", "E", "V", "O", "K", "E">> >>

\* a validator that forgets one keyword of the list
ValidateSqlNoDrop(sql) ==
    ~ ( (\E n \in 1..Len(forbidden) : n # 4 /\ Contains(Upper(sql), forbidden[n]))
        \/ ~StartsWith(Upper(Strip(sql)), SELECT) )

\* a validator that tests the prefix without trimming
ValidateSqlNoStrip(sql) ==
    ~ ( (\E n \in 1..Len(forbidden) : Contains(Upper(sql), forbidden[n]))
        \/ ~StartsWith(Upper(sql), SELECT) )

ValidateSql(sql) ==
    ~ ( (\E n \in 1..Len(forbidden) : Contains(Upper(sql), forbidden[n]))
        \/ ~StartsWith(Upper(Strip(sql)), SELECT) )

\* is_sql = "SELECT" in clean_response.upper() and clean_response.endswith(';')
IsSql(clean_response) ==
    Contains(Upper(clean_response), SELECT) /\ EndsWith(clean_response, <<";">>)

\* the statement pd.read_sql_query receives
StatementSent(sql) == RStripSemicolon(Strip(sql))

(***************************************************************************)
(* Inputs: what the language model may answer, what the database may do    *)
(***************************************************************************)
MaxFlowFrags == 2
MaxFrags == 3

SelectRegulatory ==
    <<"S", "E", "L", "E", "C", "T", " ", "*", " ", "F", "R", "O", "M", " ",
      "r", "e", "g", "u", "l", "a", "t", "o", "r", "y", "_",
      "d", "o", "c", "u", "m", "e", "n", "t", "s", ";">>
DeleteFinancial ==
    <<"D", "E", "L", "E", "T", "E", " ", "F", "R", "O", "M", " ",
      "f", "i", "n", "a", "n", "c", "i", "a", "l", "_",
      "p", "r", "o", "d", "u", "c", "t", "s", ";">>

\* replies chosen to reach every branch of the flow
CuratedReplies ==
    { SelectRegulatory,
      DeleteFinancial,
      \* select a; drop t;
      <<"s", "e", "l", "e", "c", "t", " ", "a", ";", " ", "d", "r", "o", "p", " ", "t", ";">>,
      \* WITH x SELECT 1;
      <<"W", "I", "T", "H", " ", "x", " ", "S", "E", "L", "E", "C", "T", " ", "1", ";">>,
      \* SELECT updated FROM t;   (a column name holding a keyword)
      <<"S", "E", "L", "E", "C", "T", " ", "u", "p", "d", "a", "t", "e", "d", " ",
        "F", "R", "O", "M", " ", "t", ";">>,
      \* "  select f(a) from t；\n" with full-width parentheses and semicolon
      <<" ", " ", "s", "e", "l", "e", "c", "t", " ", "f", "U+FF08", "a", "U+FF09", " ",
        "f", "r", "o", "m", " ", "t", "U+FF1B", "\n">>,
      \* a plain-language answer about the schema
      <<"t", " ", "h", "a", "s", " ", "2", " ", "c", "o", "l", "s">>,
      \* a blank reply
      <<" ", "\n">> }

FlowFragments ==
    { SELECT, <<" ">>, <<";">>, <<"U+FF1B">>, <<"D", "R", "O", "P">>, <<"x">> }

Fragments ==
    FlowFragments \cup { <<"s", "e", "l", "e", "c", "t">>, <<"d", "r">>, <<"o", "p">> }

RECURSIVE Compose(_, _)
\* the strings made of at most n fragments of frags
Compose(frags, n) ==
    IF n = 0 THEN { <<>> }
    ELSE LET shorter == Compose(frags, n - 1)
         IN  shorter \cup { s \o f : s \in shorter, f \in frags }

\* message.content of a completion
LMContents == CuratedReplies \cup Compose(FlowFragments, MaxFlowFrags)

\* the strings _validate_sql is applied to
SqlInputs == CuratedReplies \cup Compose(Fragments, MaxFrags)

\* str(e) of the exceptions the database raises
DBErrors == {"ORA-00904", "ORA-00942"}

\* what pd.read_sql_query does: a non-empty frame, an empty frame, or it raises
DBOutcomes == {"rows", "empty"} \cup DBErrors

(***************************************************************************)
(* States in which a component is at rest; a specification that exercises  *)
(* one component holds the others there.                                   *)
(***************************************************************************)
FlowAtRest ==
    /\ db_engine = TRUE
    /\ pc = "idle"
    /\ standalone_query = NoText
    /\ response_from_engine = NoneStr
    /\ generated_sql = <<>>
    /\ attempt = 0
    /\ error_message = NoText
    /\ result = None
    /\ execLog = <<>>
    /\ validated = None
    /\ repairCalls = 0

ValidateAtRest == v_sql = <<>> /\ v_result = "unset"

SearchAtRest ==
    /\ faiss_index = FALSE /\ chunk_count = 0 /\ bm25_index = FALSE /\ reranker = FALSE
    /\ s_pc = "idle" /\ s_k = 0
    /\ faiss_indices = <<>> /\ bm25_indices = <<>> /\ all_indices = {}
    /\ recalled_chunks = <<>> /\ s_result = <<>> /\ legsRun = 0 /\ rerankCalls = 0

RerankAtRest ==
    r_recalled = <<>> /\ r_k = 0 /\ r_plain = <<>> /\ r_reranked = <<>> /\ r_done = {}

ContextAtRest ==
    /\ retrieved_chunks = <<>> /\ c_pc = "idle" /\ context_str = <<>>
    /\ sources_list = <<>> /\ included = <<>>

RewriteAtRest ==
    /\ rw_fn = "core" /\ rw_query = <<>> /\ rw_history = <<>> /\ rw_pc = "idle"
    /\ rw_messages = <<>> /\ rw_result = <<>> /\ rw_lm_calls = 0

RagAtRest ==
    /\ g_query = <<>> /\ g_history = <<>> /\ g_pc = "idle" /\ g_rewritten = <<>>
    /\ g_chunks = <<>> /\ g_context = <<>> /\ g_sources = <<>> /\ g_messages = None
    /\ g_result = None /\ g_failed = {}

\* no file at CACHE_FILE_PATH
Absent == "ABSENT"

NoCall ==
    [op |-> "none", prev |-> "none", before |-> Absent, queried |-> FALSE,
     fetched |-> "", write |-> "none", returned |-> "", after |-> Absent]

CacheAtRest ==
    cache_file = Absent /\ db_schema_live = "DDL1" /\ sf_calls = 0 /\ sf_last = NoCall

HybridAtRest ==
    /\ h_pc = "idle" /\ h_router_out = None /\ tool_to_use = NoText
    /\ h_response = NoneStr /\ h_result = None /\ h_turn = 1 /\ h_dispatch = "none"
    /\ h_sent = <<>>

NormAtRest == n_ascii = <<>> /\ n_wide = <<>> /\ n_pc = "idle" /\ n_result = <<>>

SessionAtRest == ss_history = <<>> /\ ss_sent = <<>> /\ ss_turn = 0

\* no read of db_schema yet
NoRead ==
    [op |-> "none", memo_before |-> NoText, after_clear |-> FALSE, queried |-> FALSE,
     fetched |-> "", returned |-> "", wrote_memo |-> FALSE, wrote_file |-> FALSE]

MemoAtRest == db_schema_cache = NoText /\ e_last = NoRead /\ e_steps = 0

\* the requests that run side by side
Threads == {1, 2}

ConcAtRest ==
    /\ t_pc = [t \in Threads |-> "idle"]
    /\ t_schema_str = [t \in Threads |-> ""]
    /\ t_ret = [t \in Threads |-> NoText]

StartAtRest ==
    /\ a_pc = "unloaded" /\ a_config = None
    /\ rag_pipeline = FALSE /\ text_to_sql_engine = FALSE /\ a_db_engine = FALSE
    /\ a_responses = <<>>

FrameAtRest ==
    /\ fr_fn = "none" /\ fr_pc = "idle" /\ fr_heap = <<>> /\ fr_history = 0
    /\ fr_messages = 0 /\ fr_before = <<>> /\ fr_fallback = FALSE

ParseAtRest ==
    p_elements = <<>> /\ p_pc = "idle" /\ semantic_blocks = <<>> /\ final_chunks = <<>>

ExtAtRest ==
    /\ SessionAtRest /\ MemoAtRest /\ ConcAtRest /\ StartAtRest /\ FrameAtRest
    /\ ParseAtRest

ServiceAtRest ==
    /\ RewriteAtRest /\ RagAtRest /\ CacheAtRest /\ HybridAtRest /\ NormAtRest
    /\ ExtAtRest

(***************************************************************************)
(* TextToSQLEngine.run_text_to_sql_flow, one action per external call      *)
(***************************************************************************)
\* a completion call that raised: _generate_initial_sql and
\* _fix_sql_with_error return None
LMFailed == <<"raised">>

\* "not response_from_engine": None or the empty string
Falsy(response) == response = NoneStr \/ response = <<>>

\* what the two LM helpers return: content.strip(), or None when the call raised
LMReturn(out) == IF out = LMFailed THEN NoneStr ELSE Strip(out)

\* the records run_text_to_sql_flow returns
CannotHandle == [answer |-> "SORRY_CANNOT_HANDLE", type |-> "error"]
NaturalLanguageAnswer(clean_response) ==
    [answer |-> clean_response, type |-> "natural_language_answer"]
DisallowedOperation == [answer |-> "DISALLOWED_OPERATION", type |-> "error"]
FixFailed(msg, sql) ==
    [error |-> <<"AUTO_FIX_FAILED", msg>>, generated_sql |-> sql, type |-> "database_error"]
\* a report that keeps the first attempt instead of the last
RetriesExhaustedFirstAttempt(msg, sql) ==
    [error |-> <<"MAX_RETRIES_REACHED", execLog[1].outcome>>,
     generated_sql |-> execLog[1].sql, type |-> "database_error"]
RetriesExhausted(msg, sql) ==
    [error |-> <<"MAX_RETRIES_REACHED", msg>>, generated_sql |-> sql, type |-> "database_error"]
UnknownError(sql) == [error |-> <<"UNKNOWN_ERROR">>, generated_sql |-> sql, type |-> "error"]

\* what _execute_sql returns when it does not raise, with generated_sql added
ExecuteSqlReturn(engine, out, sql) ==
    IF ~engine
    THEN [error |-> <<"DB_ENGINE_NOT_INITIALIZED">>, generated_sql |-> sql]
    ELSE [answer |-> IF out = "rows" THEN "records" ELSE "NO_RECORDS_FOUND",
          type |-> "database_result", generated_sql |-> sql]

\* a loop that asks for a repair after every failure
MayRepairAlways(a) == TRUE
\* attempt < self.MAX_RETRIES - 1
MayRepair(a) == a < MAX_RETRIES - 1

otherThanFlow == <<valVars, searchVars, rerankVars, ctxVars, serviceVars>>

\* entry: the query is rewritten against the history (when there is one)
Call ==
    /\ pc \in {"idle", "done"}
    /\ \E hasHistory \in BOOLEAN, rewriteOk \in BOOLEAN :
          standalone_query' = IF hasHistory /\ rewriteOk THEN "rewritten_query"
                              ELSE "user_query"
    /\ pc' = "generate"
    /\ response_from_engine' = NoneStr
    /\ generated_sql' = <<>>
    /\ attempt' = 0
    /\ error_message' = NoText
    /\ result' = None
    /\ execLog' = <<>>
    /\ validated' = None
    /\ repairCalls' = 0
    /\ UNCHANGED <<db_engine, otherThanFlow>>

\* _generate_initial_sql and the test on its result
GenerateInitial ==
    /\ pc = "generate"
    /\ \E out \in {LMFailed} \cup LMContents :
          /\ response_from_engine' = LMReturn(out)
          /\ IF Falsy(LMReturn(out))
             THEN result' = CannotHandle /\ pc' = "done"
             ELSE result' = result /\ pc' = "loop"
    /\ generated_sql' = <<>>
    /\ UNCHANGED <<db_engine, standalone_query, attempt, error_message, execLog,
                   validated, repairCalls, otherThanFlow>>

\* the head of the for loop and its body down to the call of _execute_sql
LoopBody ==
    /\ pc = "loop"
    /\ IF attempt >= MAX_RETRIES
       THEN /\ result' = UnknownError(generated_sql)
            /\ pc' = "done"
            /\ UNCHANGED <<generated_sql, validated>>
       ELSE LET clean_response == NormalizeSqlPunctuation(response_from_engine)
            IN  IF ~IsSql(clean_response)
                THEN /\ result' = NaturalLanguageAnswer(clean_response)
                     /\ pc' = "done"
                     /\ UNCHANGED <<generated_sql, validated>>
                ELSE IF ~ValidateSql(clean_response)
                THEN /\ result' = DisallowedOperation
                     /\ pc' = "done"
                     /\ UNCHANGED <<generated_sql, validated>>
                ELSE /\ generated_sql' = clean_response
                     /\ validated' = [sql |-> clean_response, attempt |-> attempt]
                     /\ pc' = "execute"
                     /\ result' = result
    /\ UNCHANGED <<db_engine, standalone_query, response_from_engine, attempt,
                   error_message, execLog, repairCalls, otherThanFlow>>

\* _execute_sql(generated_sql) and the except clause around it
ExecuteSql ==
    /\ pc = "execute"
    /\ \E out \in DBOutcomes :
          /\ execLog' = Append(execLog,
                 [sql |-> generated_sql, attempt |-> attempt, passed |-> validated,
                  sent |-> IF db_engine THEN StatementSent(generated_sql) ELSE NoneStr,
                  outcome |-> IF db_engine THEN out ELSE "not_connected"])
          /\ IF ~db_engine \/ out \notin DBErrors
             THEN /\ result' = ExecuteSqlReturn(db_engine, out, generated_sql)
                  /\ pc' = "done"
                  /\ error_message' = error_message
             ELSE /\ error_message' = out
                  /\ IF MayRepair(attempt)
                     THEN pc' = "repair" /\ result' = result
                     ELSE pc' = "done" /\ result' = RetriesExhausted(out, generated_sql)
    /\ UNCHANGED <<db_engine, standalone_query, response_from_engine, generated_sql,
                   attempt, validated, repairCalls, otherThanFlow>>

\* _fix_sql_with_error and the test on its result; the loop then goes round
Repair ==
    /\ pc = "repair"
    /\ repairCalls' = repairCalls + 1
    /\ \E out \in {LMFailed} \cup LMContents :
          /\ response_from_engine' = LMReturn(out)
          /\ IF Falsy(LMReturn(out))
             THEN /\ result' = FixFailed(error_message, generated_sql)
                  /\ pc' = "done"
                  /\ attempt' = attempt
             ELSE /\ result' = result
                  /\ pc' = "loop"
                  /\ attempt' = attempt + 1
    /\ UNCHANGED <<db_engine, standalone_query, generated_sql, error_message, execLog,
                   validated, otherThanFlow>>

FlowInit ==
    /\ db_engine \in BOOLEAN
    /\ pc = "idle"
    /\ standalone_query = NoText
    /\ response_from_engine = NoneStr
    /\ generated_sql = <<>>
    /\ attempt = 0
    /\ error_message = NoText
    /\ result = None
    /\ execLog = <<>>
    /\ validated = None
    /\ repairCalls = 0

Init ==
    FlowInit /\ ValidateAtRest /\ SearchAtRest /\ RerankAtRest /\ ContextAtRest
    /\ ServiceAtRest

Next == Call \/ GenerateInitial \/ LoopBody \/ ExecuteSql \/ Repair

Spec == Init /\ [][Next]_vars

\* a step of a running call: the call moves to its next position
Proceeds ==
    /\ pc \in {"generate", "loop", "execute", "repair"}
    /\ pc' \in {"loop", "execute", "repair", "done"}

\* run_text_to_sql_flow is one synchronous call on one thread, and each of its
\* steps (an LM completion, a database query) returns or raises: a call that
\* has started takes its next step
LiveSpec == Spec /\ WF_pc(Proceeds)

(***************************************************************************)
(* _validate_sql applied to one string                                     *)
(***************************************************************************)
Validate ==
    /\ v_result = "unset"
    /\ v_result' = IF ValidateSql(v_sql) THEN "True" ELSE "False"
    /\ UNCHANGED <<v_sql, sqlVars, searchVars, rerankVars, ctxVars, serviceVars>>

ValidateInit ==
    /\ v_sql \in SqlInputs /\ v_result = "unset"
    /\ FlowAtRest /\ SearchAtRest /\ RerankAtRest /\ ContextAtRest /\ ServiceAtRest

ValidateNext == Validate

ValidateSpec == ValidateInit /\ [][ValidateNext]_vars

(***************************************************************************)
(* Properties of the Text-to-SQL engine                                    *)
(***************************************************************************)
\* the write keywords and the read-only shape, spelled out position by position
WriteKeywords ==
    { <<"I", "N", "S", "E", "R", "T">>, <<"U", "P", "D", "A", "T", "E">>,
      <<"D", "E", "L", "E", "T", "E">>, <<"D", "R", "O", "P">>,
      <<"C", "R", "E", "A", "T", "E">>, <<"A", "L", "T", "E", "R">>,
      <<"T", "R", "U", "N", "C", "A", "T", "E">>, <<"G", "R", "A", "N", "T">>,
      <<"R", "E", "V", "O", "K", "E">> }

\* word stands at position i of s, whatever the case of s
OccursAt(s, word, i) ==
    /\ i + Len(word) - 1 <= Len(s)
    /\ \A j \in 1..Len(word) : UpperChar(s[i + j - 1]) = word[j]

HasWriteKeyword(s) == \E word \in WriteKeywords : \E i \in 1..Len(s) : OccursAt(s, word, i)

\* the first character of s that is not white space starts the word SELECT
SelectFirst(s) ==
    \E i \in 1..Len(s) :
        /\ \A j \in 1..(i - 1) : s[j] \in Whitespace
        /\ OccursAt(s, SELECT, i)

\* the last execution of the run was the last one the loop allows, and it failed
FinalExecutionFailed ==
    /\ Len(execLog) = MAX_RETRIES
    /\ execLog[MAX_RETRIES].outcome \in DBErrors

\* the counts of one call stay within MAX_RETRIES, and the failure of the last
\* allowed execution is reported as a database_error
RepairLoopBounded ==
    /\ repairCalls <= MAX_RETRIES
    /\ Len(execLog) <= MAX_RETRIES
    /\ (pc = "done" /\ FinalExecutionFailed) =>
          ("type" \in DOMAIN result /\ result.type = "database_error")

FlowStarted == pc = "generate"
FlowReturned == pc = "done"

ResultTypes == {"database_result", "natural_language_answer", "database_error", "error"}

\* C1: every SQL string handed to _execute_sql, on any attempt, was accepted by
\* _validate_sql in that same attempt, and none holds a write keyword or fails
\* to start with SELECT.
C1_OnlyValidatedSqlExecuted ==
    /\ \A n \in 1..Len(execLog) :
          /\ execLog[n].passed = [sql |-> execLog[n].sql, attempt |-> execLog[n].attempt]
          /\ ~HasWriteKeyword(execLog[n].sql)
          /\ SelectFirst(execLog[n].sql)
    /\ pc = "execute" =>
          /\ validated = [sql |-> generated_sql, attempt |-> attempt]
          /\ ~HasWriteKeyword(generated_sql)
          /\ SelectFirst(generated_sql)

\* an LM-repaired statement, different from the first one, was executed
C1_Witness ==
    /\ Len(execLog) = 2
    /\ execLog[1].sql # execLog[2].sql
    /\ execLog[2].outcome = "rows"

\* C2: _validate_sql(s) is false exactly when upper-cased s holds one of the nine
\* write keywords or trimmed upper-cased s does not start with SELECT; the
\* DELETE statement is rejected and the SELECT statement accepted.
C2_ValidateExact ==
    v_result # "unset" =>
        /\ (v_result = "False") <=> (HasWriteKeyword(v_sql) \/ ~SelectFirst(v_sql))
        /\ (v_result = "True") <=> ~(HasWriteKeyword(v_sql) \/ ~SelectFirst(v_sql))
        /\ v_sql = DeleteFinancial => v_result = "False"
        /\ v_sql = SelectRegulatory => v_result = "True"

C2_Witness == v_sql = SelectRegulatory /\ v_result = "True"

\* C3: one call makes at most MAX_RETRIES repair calls and at most MAX_RETRIES
\* executions, returns database_error when the last allowed execution fails,
\* and always terminates.
C3_BoundedRepairLoop ==
    /\ []RepairLoopBounded
    /\ (FlowStarted ~> FlowReturned)

C3_Witness ==
    /\ pc = "done"
    /\ FinalExecutionFailed
    /\ repairCalls = MAX_RETRIES - 1
    /\ result.type = "database_error"

\* C4: on retry exhaustion the database_error record carries the error text of
\* the last failed execution and the SQL executed on that last attempt.
C4_LastErrorAndSql ==
    (pc = "done" /\ FinalExecutionFailed) =>
        /\ "error" \in DOMAIN result
        /\ result.error = <<"MAX_RETRIES_REACHED", execLog[Len(execLog)].outcome>>
        /\ result.generated_sql = execLog[Len(execLog)].sql

\* both attempts failed, with different statements and different errors
C4_Witness ==
    /\ pc = "done"
    /\ FinalExecutionFailed
    /\ execLog[1].sql # execLog[2].sql
    /\ execLog[1].outcome # execLog[2].outcome

\* C5: every record run_text_to_sql_flow returns has a type field holding one of
\* the four result types.
C5_EveryRecordTyped ==
    pc = "done" => ("type" \in DOMAIN result /\ result.type \in ResultTypes)

(***************************************************************************)
(* SearchEngine: Python list and set operations                            *)
(***************************************************************************)
MaxChunks == 2
MaxK == 2

\* the float scores BM25 and the cross-encoder give: none, low, high
Scores == {0, 1, 2}

Min(a, b) == IF a <= b THEN a ELSE b
Max(a, b) == IF a >= b THEN a ELSE b

\* a slice that forgets its bound
FirstKUnbounded(list, k) == list
\* list[:k]
FirstK(list, k) ==
    IF k >= 0 THEN SubSeq(list, 1, Min(k, Len(list)))
    ELSE SubSeq(list, 1, Max(0, Len(list) + k))

\* set(list)
SetOf(list) == {list[i] : i \in 1..Len(list)}

\* the orders in which the elements of a finite set can be listed
Orderings(S) ==
    {f \in [1..Cardinality(S) -> S] : \A i, j \in 1..Cardinality(S) : i # j => f[i] # f[j]}

\* sorted(zip(key, list), key = first, reverse = True): a stable sort, the
\* higher key first, equal keys in their original order
SortedDescending(list, key) ==
    LET rank(i) == 1 + Cardinality({j \in 1..Len(list) :
                        key[j] > key[i] \/ (key[j] = key[i] /\ j < i)})
    IN  [r \in 1..Len(list) |-> list[CHOOSE i \in 1..Len(list) : rank(i) = r]]

\* chunks_with_metadata[i], as the position (from 0) of the chunk it yields: a
\* negative subscript counts from the end of the list
ChunkAt(n, i) == IF i >= 0 THEN i ELSE n + i

\* IndexFlatL2.search(vector, recall_k) on an index of n vectors: the labels of
\* the nearest min(n, recall_k) vectors in the order of their distance, then
\* the label -1 for every result the index could not supply
FaissLabels(n, recall_k, order) ==
    [j \in 1..recall_k |-> IF j <= n THEN order[j] ELSE -1]

\* lines 110-112: the ordinals of positive score, best first, at most recall_k
Bm25Indices(n, bm25_scores, recall_k) ==
    LET positive == {i \in 0..(n - 1) : bm25_scores[i] > 0}
        enumerated == SortedDescending(
                         [j \in 1..Cardinality(positive) |->
                             CHOOSE i \in positive :
                                 Cardinality({h \in positive : h < i}) = j - 1],
                         [j \in 1..Cardinality(positive) |->
                             bm25_scores[CHOOSE i \in positive :
                                 Cardinality({h \in positive : h < i}) = j - 1]])
    IN  FirstK(enumerated, recall_k)

\* an engine that re-ranks whatever the fusion gave, even nothing
FusionEmptyNever(all) == FALSE
\* "if not all_indices"
FusionEmpty(all) == all = {}

\* line 125
ReturnFused(recalled, k) == FirstK(recalled, k)

\* a re-ranked result that keeps one chunk more than asked
RerankedTopOneMore(recalled, scores, k) ==
    FirstK(SortedDescending(recalled, scores), k + 1)
\* lines 133-137
RerankedTop(recalled, scores, k) == FirstK(SortedDescending(recalled, scores), k)

otherThanSearch == <<sqlVars, valVars, rerankVars, ctxVars, serviceVars>>

(***************************************************************************)
(* SearchEngine.search                                                     *)
(***************************************************************************)
\* entry: the initialisation test and the embedding of the query
SearchStart ==
    /\ s_pc \in {"idle", "returned", "raised"}
    /\ \E k \in 0..MaxK, embedded \in BOOLEAN :
          /\ s_k' = k
          /\ IF ~faiss_index \/ ~bm25_index \/ ~embedded
             THEN s_pc' = "returned"
             ELSE s_pc' = "dense"
    /\ faiss_indices' = <<>>
    /\ bm25_indices' = <<>>
    /\ all_indices' = {}
    /\ recalled_chunks' = <<>>
    /\ s_result' = <<>>
    /\ legsRun' = 0
    /\ rerankCalls' = 0
    /\ UNCHANGED <<faiss_index, chunk_count, bm25_index, reranker, otherThanSearch>>

\* lines 100-105: the dense leg; recall_k = 0 makes faiss raise
DenseLeg ==
    /\ s_pc = "dense"
    /\ \E raised \in BOOLEAN, order \in Orderings(0..(chunk_count - 1)) :
          faiss_indices' = IF raised \/ s_k * 10 = 0 THEN <<>>
                           ELSE FaissLabels(chunk_count, s_k * 10, order)
    /\ s_pc' = "lexical"
    /\ legsRun' = legsRun + 1
    /\ UNCHANGED <<faiss_index, chunk_count, bm25_index, reranker, s_k, bm25_indices,
                   all_indices, recalled_chunks, s_result, rerankCalls, otherThanSearch>>

\* lines 107-115: the lexical leg
LexicalLeg ==
    /\ s_pc = "lexical"
    /\ \E raised \in BOOLEAN, bm25_scores \in [0..(chunk_count - 1) -> Scores] :
          bm25_indices' = IF raised THEN <<>>
                          ELSE Bm25Indices(chunk_count, bm25_scores, s_k * 10)
    /\ s_pc' = "fuse"
    /\ legsRun' = legsRun + 1
    /\ UNCHANGED <<faiss_index, chunk_count, bm25_index, reranker, s_k, faiss_indices,
                   all_indices, recalled_chunks, s_result, rerankCalls, otherThanSearch>>

\* lines 117-125: fusion, the lookup of the chunks in the order the set yields
\* them, and the return without a re-ranker
Fuse ==
    /\ s_pc = "fuse"
    /\ all_indices' = SetOf(faiss_indices) \cup SetOf(bm25_indices)
    /\ IF FusionEmpty(all_indices')
       THEN /\ recalled_chunks' = <<>>
            /\ s_result' = <<>>
            /\ s_pc' = "returned"
       ELSE \E order \in Orderings(all_indices') :
              /\ recalled_chunks' =
                    [j \in 1..Len(order) |-> ChunkAt(chunk_count, order[j])]
              /\ IF ~reranker
                 THEN s_result' = ReturnFused(recalled_chunks', s_k) /\ s_pc' = "returned"
                 ELSE s_result' = <<>> /\ s_pc' = "rerank"
    /\ UNCHANGED <<faiss_index, chunk_count, bm25_index, reranker, s_k, faiss_indices,
                   bm25_indices, legsRun, rerankCalls, otherThanSearch>>

\* lines 129-139: reranker.predict either raises, and search with it, or scores
\* every pair
Rerank ==
    /\ s_pc = "rerank"
    /\ rerankCalls' = rerankCalls + 1
    /\ \/ s_pc' = "raised" /\ s_result' = <<>>
       \/ \E scores \in [1..Len(recalled_chunks) -> Scores] :
             /\ s_result' = RerankedTop(recalled_chunks, scores, s_k)
             /\ s_pc' = "returned"
    /\ UNCHANGED <<faiss_index, chunk_count, bm25_index, reranker, s_k, faiss_indices,
                   bm25_indices, all_indices, recalled_chunks, legsRun, otherThanSearch>>

\* SearchEngine.__init__: the knowledge base loads or not; with it loaded, the
\* BM25 index is built or not and the re-ranker loads or not
SearchInit ==
    /\ faiss_index \in BOOLEAN
    /\ chunk_count \in (IF faiss_index THEN 1..MaxChunks ELSE {0})
    /\ bm25_index \in (IF faiss_index THEN BOOLEAN ELSE {FALSE})
    /\ reranker \in (IF faiss_index THEN BOOLEAN ELSE {FALSE})
    /\ s_pc = "idle" /\ s_k = 0
    /\ faiss_indices = <<>> /\ bm25_indices = <<>> /\ all_indices = {}
    /\ recalled_chunks = <<>> /\ s_result = <<>> /\ legsRun = 0 /\ rerankCalls = 0
    /\ FlowAtRest /\ ValidateAtRest /\ RerankAtRest /\ ContextAtRest /\ ServiceAtRest

SearchNext == SearchStart \/ DenseLeg \/ LexicalLeg \/ Fuse \/ Rerank

SearchSpec == SearchInit /\ [][SearchNext]_vars

(***************************************************************************)
(* The two ways search ends (lines 123-125 and lines 129-139), applied to  *)
(* the same fused list and the same k                                      *)
(***************************************************************************)
\* the lists Fuse can build: at most one entry per ordinal and one for -1
FusedLists ==
    UNION { [1..len -> 0..(MaxChunks - 1)] : len \in 1..(MaxChunks + 1) }

WithoutReranker ==
    /\ "plain" \notin r_done
    /\ r_plain' = ReturnFused(r_recalled, r_k)
    /\ r_done' = r_done \cup {"plain"}
    /\ UNCHANGED <<r_recalled, r_k, r_reranked, sqlVars, valVars, searchVars, ctxVars,
                   serviceVars>>

WithReranker ==
    /\ "reranked" \notin r_done
    /\ \E scores \in [1..Len(r_recalled) -> Scores] :
          r_reranked' = RerankedTop(r_recalled, scores, r_k)
    /\ r_done' = r_done \cup {"reranked"}
    /\ UNCHANGED <<r_recalled, r_k, r_plain, sqlVars, valVars, searchVars, ctxVars,
                   serviceVars>>

RerankInit ==
    /\ r_recalled \in FusedLists
    /\ r_k \in 0..MaxK
    /\ r_plain = <<>> /\ r_reranked = <<>> /\ r_done = {}
    /\ FlowAtRest /\ ValidateAtRest /\ SearchAtRest /\ ContextAtRest /\ ServiceAtRest

RerankNext == WithoutReranker \/ WithReranker

RerankSpec == RerankInit /\ [][RerankNext]_vars

(***************************************************************************)
(* Properties of the search engine                                         *)
(***************************************************************************)
\* the chunk ordinals among the labels the dense index returned
DenseOrdinals == SetOf(faiss_indices) \cap (0..(chunk_count - 1))
LexicalOrdinals == SetOf(bm25_indices)

\* C6: the fused candidates are exactly the union of the chunk ordinals of the
\* dense and of the lexical result: no chunk twice, none from outside both.
C6_FusedIsUnion ==
    s_pc \in {"rerank", "returned", "raised"} =>
        /\ all_indices = DenseOrdinals \cup LexicalOrdinals
        /\ SetOf(recalled_chunks) = DenseOrdinals \cup LexicalOrdinals
        /\ Len(recalled_chunks) = Cardinality(DenseOrdinals \cup LexicalOrdinals)

\* C7: search(query, k) returns at most k chunks, with or without the re-ranker.
C7_AtMostK == s_pc = "returned" => Len(s_result) <= s_k

\* the re-ranker ran on more than k candidates and exactly k came back
C7_Witness ==
    /\ s_pc = "returned"
    /\ rerankCalls = 1
    /\ s_k > 0
    /\ Len(recalled_chunks) > s_k
    /\ Len(s_result) = s_k

\* C8: on the same fused list and the same k, search returns as many chunks
\* without the re-ranker as with it.
C8_SameCount ==
    r_done = {"plain", "reranked"} => Len(r_plain) = Len(r_reranked)

\* both ran on a list longer than k, and chose or ordered differently
C8_Witness ==
    /\ r_done = {"plain", "reranked"}
    /\ Len(r_recalled) > r_k
    /\ r_k > 0
    /\ r_plain # r_reranked

\* C9: when the dense and the lexical leg both yield nothing, search returns
\* the empty list and the re-ranker is not invoked.
C9_EmptyRecall ==
    (legsRun = 2 /\ s_pc # "fuse" /\ faiss_indices = <<>> /\ bm25_indices = <<>>) =>
        /\ s_pc = "returned"
        /\ s_result = <<>>
        /\ rerankCalls = 0

\* both legs ran on an engine with a re-ranker, and both came back empty
C9_Witness ==
    /\ legsRun = 2
    /\ s_pc = "returned"
    /\ reranker
    /\ s_k > 0
    /\ faiss_indices = <<>>
    /\ bm25_indices = <<>>

\* C30 as stated: SearchEngine.search never raises to its caller: a failure of
\* the embedding call, of the dense query, of the lexical query or of the
\* re-ranker's scoring is absorbed inside search, which then returns a list.
C30_SearchNeverRaises == s_pc # "raised"

(***************************************************************************)
(* Long texts, run-length encoded: a str is a sequence of runs [ch, n], n  *)
(* copies of the character ch, no run empty and no two neighbours alike    *)
(***************************************************************************)
Run(ch, n) == IF n = 0 THEN <<>> ELSE << [ch |-> ch, n |-> n] >>

RECURSIVE StrLen(_)
\* len(s)
StrLen(s) == IF s = <<>> THEN 0 ELSE s[1].n + StrLen(Tail(s))

\* s + t
Cat(s, t) ==
    IF s = <<>> THEN t
    ELSE IF t = <<>> THEN s
    ELSE IF s[Len(s)].ch = t[1].ch
    THEN SubSeq(s, 1, Len(s) - 1)
         \o << [ch |-> t[1].ch, n |-> s[Len(s)].n + t[1].n] >>
         \o Tail(t)
    ELSE s \o t

RECURSIVE Join(_, _)
\* delimiter.join(list)
Join(delimiter, list) ==
    IF list = <<>> THEN <<>>
    ELSE IF Len(list) = 1 THEN list[1]
    ELSE Cat(Cat(list[1], delimiter), Join(delimiter, Tail(list)))

(***************************************************************************)
(* RAGPipeline._prepare_context                                            *)
(***************************************************************************)
MAX_CONTEXT_CHARS == 8000

\* "\n---\n"
Delimiter == Run("\n", 1) \o Run("-", 3) \o Run("\n", 1)

\* the ten characters of the text returned for an empty list
NoContextProvided ==
    Run("U+6CA1", 1) \o Run("U+6709", 1) \o Run("U+63D0", 1) \o Run("U+4F9B", 1)
    \o Run("U+4EFB", 1) \o Run("U+4F55", 1) \o Run("U+4E0A", 1) \o Run("U+4E0B", 1)
    \o Run("U+6587", 1) \o Run("U+3002", 1)

\* chunk_data.get("metadata", {}), meta.get("doc_title", ...),
\* meta.get("chapter_title", ...)
SourceTuple(chunk_data) ==
    LET meta == IF "metadata" \in DOMAIN chunk_data THEN chunk_data.metadata ELSE None
    IN  << IF "doc_title" \in DOMAIN meta THEN meta.doc_title ELSE "UNKNOWN_DOCUMENT",
           IF "chapter_title" \in DOMAIN meta THEN meta.chapter_title ELSE "NO_CHAPTER" >>

\* a budget test that turns away a chunk that fills the budget exactly
WouldExceedOrFill(current_context_len, chunk_text) ==
    current_context_len + StrLen(chunk_text) >= MAX_CONTEXT_CHARS
\* line 90
WouldExceed(current_context_len, chunk_text) ==
    current_context_len + StrLen(chunk_text) > MAX_CONTEXT_CHARS

\* a citation list that takes every chunk's pair, seen before or not
WithSourceAlways(sources, seen_sources, source_tuple) ==
    Append(sources, source_tuple)
\* lines 101-102
WithSource(sources, seen_sources, source_tuple) ==
    IF source_tuple \notin seen_sources THEN Append(sources, source_tuple)
    ELSE sources

RECURSIVE ContextLoop(_, _, _)
\* the for loop of lines 87-103 from its i-th round on; acc holds the locals
ContextLoop(chunks, i, acc) ==
    IF i > Len(chunks) THEN acc
    ELSE IF WouldExceed(acc.current_context_len, chunks[i].text) THEN acc
    ELSE ContextLoop(chunks, i + 1,
            [context_with_sources |-> Append(acc.context_with_sources, chunks[i].text),
             current_context_len |-> acc.current_context_len + StrLen(chunks[i].text),
             sources_list |->
                 WithSource(acc.sources_list, acc.seen_sources, SourceTuple(chunks[i])),
             seen_sources |-> acc.seen_sources \cup {SourceTuple(chunks[i])}])

\* the locals after the loop
ContextLocals(chunks) ==
    ContextLoop(chunks, 1,
        [context_with_sources |-> <<>>, current_context_len |-> 0,
         sources_list |-> <<>>, seen_sources |-> {}])

\* inputs: chunk texts around the budget, and the shapes of metadata
MaxCtxChunks == 3

ChunkTexts ==
    { Run("a", 1),
      Run("b", 4000),
      Run("c", 3999) \o Run("\n", 1),
      Run("d", 8000),
      Run("e", 8001) }

ChunkRecords ==
    { [text |-> t, metadata |-> [doc_title |-> "DocA", chapter_title |-> "Ch1"]] :
          t \in ChunkTexts }
    \cup { [text |-> t, metadata |-> [doc_title |-> "DocB"]] : t \in ChunkTexts }
    \cup { [text |-> t] : t \in ChunkTexts }

ChunkLists == UNION { [1..len -> ChunkRecords] : len \in 0..MaxCtxChunks }

PrepareContext ==
    /\ c_pc = "idle"
    /\ c_pc' = "done"
    /\ IF retrieved_chunks = <<>>
       THEN /\ context_str' = NoContextProvided
            /\ sources_list' = <<>>
            /\ included' = <<>>
       ELSE /\ included' = ContextLocals(retrieved_chunks).context_with_sources
            /\ context_str' = Join(Delimiter, included')
            /\ sources_list' = ContextLocals(retrieved_chunks).sources_list
    /\ UNCHANGED <<retrieved_chunks, sqlVars, valVars, searchVars, rerankVars,
                   serviceVars>>

ContextInit ==
    /\ retrieved_chunks \in ChunkLists
    /\ c_pc = "idle" /\ context_str = <<>> /\ sources_list = <<>> /\ included = <<>>
    /\ FlowAtRest /\ ValidateAtRest /\ SearchAtRest /\ RerankAtRest /\ ServiceAtRest

ContextNext == PrepareContext

ContextSpec == ContextInit /\ [][ContextNext]_vars

(***************************************************************************)
(* Properties of the context assembly                                      *)
(***************************************************************************)
RECURSIVE TextLenOfFirst(_)
\* the summed text length of the first j chunks of the list
TextLenOfFirst(j) ==
    IF j = 0 THEN 0 ELSE TextLenOfFirst(j - 1) + StrLen(retrieved_chunks[j].text)

RECURSIVE JoinedFirst(_)
\* the texts of the first j chunks, whole and in order, the delimiter between
JoinedFirst(j) ==
    IF j = 0 THEN <<>>
    ELSE IF j = 1 THEN retrieved_chunks[1].text
    ELSE Cat(Cat(JoinedFirst(j - 1), Delimiter), retrieved_chunks[j].text)

\* what the claim says of the context built from the list
ReproducesWholeChunks ==
    IF TextLenOfFirst(Len(retrieved_chunks)) <= MAX_CONTEXT_CHARS
    THEN context_str = JoinedFirst(Len(retrieved_chunks))
    ELSE \E j \in 0..(Len(retrieved_chunks) - 1) :
            /\ TextLenOfFirst(j) <= MAX_CONTEXT_CHARS
            /\ TextLenOfFirst(j + 1) > MAX_CONTEXT_CHARS
            /\ context_str = JoinedFirst(j)

\* C10 as stated: for every ranked chunk list, the context is all chunk texts
\* joined by the delimiter when they fit the budget, and otherwise the texts of
\* the strict prefix that ends before the first chunk that would exceed it.
C10_AnyList == c_pc = "done" => ReproducesWholeChunks

\* C10: the same for every ranked chunk list that is not empty; for the empty
\* list the context is the fixed text "no context provided", not the empty join.
C10_NonEmptyList ==
    c_pc = "done" =>
        IF retrieved_chunks # <<>> THEN ReproducesWholeChunks
        ELSE context_str = NoContextProvided /\ context_str # JoinedFirst(0)

\* a list over budget whose later, smaller chunk is not taken up again
C10_Witness ==
    /\ c_pc = "done"
    /\ Len(retrieved_chunks) = 3
    /\ TextLenOfFirst(2) > MAX_CONTEXT_CHARS
    /\ TextLenOfFirst(1) + StrLen(retrieved_chunks[3].text) <= MAX_CONTEXT_CHARS
    /\ Len(included) = 1

\* the rank of the first chunk among the first n that carries the pair
FirstRankOf(pair, n) ==
    CHOOSE i \in 1..n :
        /\ SourceTuple(retrieved_chunks[i]) = pair
        /\ \A h \in 1..(i - 1) : SourceTuple(retrieved_chunks[h]) # pair

\* C11: in the sources list every (doc_title, chapter_title) pair of an
\* included chunk occurs exactly once, and the pairs stand in the order of the
\* rank of the first included chunk that carries them.
C11_SourcesOncePerPair ==
    c_pc = "done" =>
        LET n == Len(included)
            pairs == { SourceTuple(retrieved_chunks[i]) : i \in 1..n }
        IN  /\ { sources_list[p] : p \in 1..Len(sources_list) } = pairs
            /\ Len(sources_list) = Cardinality(pairs)
            /\ \A p, q \in 1..Len(sources_list) :
                   p < q => FirstRankOf(sources_list[p], n) < FirstRankOf(sources_list[q], n)

\* chunks 1 and 3 share a pair that chunk 2 does not carry; all three included
C11_Witness ==
    /\ c_pc = "done"
    /\ Len(included) = 3
    /\ SourceTuple(retrieved_chunks[1]) = SourceTuple(retrieved_chunks[3])
    /\ SourceTuple(retrieved_chunks[1]) # SourceTuple(retrieved_chunks[2])
    /\ Len(sources_list) = 2

\* C22 as stated: the context string returned by _prepare_context, the chunk
\* texts together with the delimiters that join them, is never longer than
\* MAX_CONTEXT_CHARS, for any ranked chunk list.
C22_ContextWithinBudget ==
    c_pc = "done" => StrLen(context_str) <= MAX_CONTEXT_CHARS

(***************************************************************************)
(* Query rewriting: rewrite_query_with_history (core/query_rewriter.py)    *)
(* and RAGPipeline._rewrite_query (engine.py)                              *)
(***************************************************************************)
MaxHistory == 5

\* a chat message; contents are strs
Message(role, content) == [role |-> role, content |-> content]

HistoryMessages == { Message("user", <<"u">>), Message("assistant", <<"a">>) }

Histories == UNION { [1..len -> HistoryMessages] : len \in 0..MaxHistory }

Queries == { <<"q">>, <<" ", "q", "?">> }

\* what the completion call of a rewriting gives: a content, None, or it raises
RewriteReplies == { <<"r">>, <<" ", "r", "\n">>, <<>>, NoneStr, LMFailed }

\* history[-4:]
LastFour(history) == SubSeq(history, Max(1, Len(history) - 3), Len(history))

\* the instruction message appended to the messages (the f-string around query)
RewriteInstruction(query) == Message("user", <<"REWRITE">> \o query)

\* a test of the history that never finds it empty
HistoryEmptyNever(history) == FALSE
\* "not history"
HistoryEmpty(history) == history = <<>>

\* the value returned after the completion call: the core function strips the
\* content (None has no strip: the except branch returns the query), the
\* pipeline's method returns the content as it is
Rewritten(fn, query, out) ==
    IF out = LMFailed THEN query
    ELSE IF fn = "core" THEN (IF out = NoneStr THEN query ELSE Strip(out))
    ELSE out

otherThanRewrite ==
    <<sqlVars, valVars, searchVars, rerankVars, ctxVars, ragVars, cacheVars,
      hybridVars, normVars, extVars>>

\* entry: the test of the history and the building of the messages
RewriteCall ==
    /\ rw_pc = "idle"
    /\ IF HistoryEmpty(rw_history)
       THEN /\ rw_result' = rw_query
            /\ rw_pc' = "returned"
            /\ rw_messages' = <<>>
       ELSE /\ rw_messages' = Append(LastFour(rw_history), RewriteInstruction(rw_query))
            /\ rw_pc' = "lm"
            /\ rw_result' = rw_result
    /\ UNCHANGED <<rw_fn, rw_query, rw_history, rw_lm_calls, otherThanRewrite>>

\* the completion call and the return
RewriteLM ==
    /\ rw_pc = "lm"
    /\ rw_lm_calls' = rw_lm_calls + 1
    /\ \E out \in RewriteReplies : rw_result' = Rewritten(rw_fn, rw_query, out)
    /\ rw_pc' = "returned"
    /\ UNCHANGED <<rw_fn, rw_query, rw_history, rw_messages, otherThanRewrite>>

RewriteInit ==
    /\ rw_fn \in {"core", "pipeline"}
    /\ rw_query \in Queries
    /\ rw_history \in Histories
    /\ rw_pc = "idle" /\ rw_messages = <<>> /\ rw_result = <<>> /\ rw_lm_calls = 0
    /\ FlowAtRest /\ ValidateAtRest /\ SearchAtRest /\ RerankAtRest /\ ContextAtRest
    /\ RagAtRest /\ CacheAtRest /\ HybridAtRest /\ NormAtRest /\ ExtAtRest

RewriteNext == RewriteCall \/ RewriteLM

RewriteSpec == RewriteInit /\ [][RewriteNext]_vars

\* C12: with an empty history either rewriter returns the query unchanged and
\* makes no completion call.
C12_EmptyHistoryUnchanged ==
    rw_history = <<>> =>
        /\ rw_lm_calls = 0
        /\ rw_pc # "lm"
        /\ rw_pc = "returned" => rw_result = rw_query

\* a rewriting with an empty history has returned
C12_Witness ==
    rw_pc = "returned" /\ rw_history = <<>> /\ rw_query = <<" ", "q", "?">>

(***************************************************************************)
(* RAGPipeline.execute (engine.py)                                         *)
(***************************************************************************)
\* the labels of source_pattern, and the two colons
SourceLabels ==
    { <<"U+4EE5", "U+4E0A", "U+4FE1", "U+606F", "U+6765", "U+6E90", "U+4E8E",
        "U+6587", "U+4EF6">>,
      <<"U+6765", "U+6E90">>,
      <<"U+8D44", "U+6599", "U+6765", "U+6E90">> }

Colons == {"U+FF1A", ":"}

\* one of the labels, then a colon, stands at position j of s
LabelAt(s, j) ==
    \E label \in SourceLabels :
        /\ j + Len(label) <= Len(s)
        /\ SubSeq(s, j, j + Len(label) - 1) = label
        /\ s[j + Len(label)] \in Colons

\* source_pattern matches at position i: an optional newline, a label, a colon
PatternAt(s, i) == (s[i] = "\n" /\ LabelAt(s, i + 1)) \/ LabelAt(s, i)

\* the last position of the match that starts at i: ".*" runs to the line's end
PatternEnd(s, i) ==
    LET from == IF s[i] = "\n" THEN i + 1 ELSE i
        breaks == { p \in from..Len(s) : s[p] = "\n" }
    IN  IF breaks = {} THEN Len(s)
        ELSE (CHOOSE p \in breaks : \A r \in breaks : p <= r) - 1

RECURSIVE SubPattern(_, _)
\* re.sub(source_pattern, '', s), from position i on
SubPattern(s, i) ==
    IF i > Len(s) THEN <<>>
    ELSE IF PatternAt(s, i) THEN SubPattern(s, PatternEnd(s, i) + 1)
    ELSE <<s[i]>> \o SubPattern(s, i + 1)

\* an answer returned as the model wrote it
CleanedAnswerRaw(pure_answer) == pure_answer
\* line 132
CleanedAnswer(pure_answer) == Strip(SubPattern(pure_answer, 1))

\* the fixed answer of line 140
Apology == <<"SORRY_INTERNAL_PROBLEM">>

\* a record that hands the assembled sources back with the fixed answer
AnswerFailedWithSources(sources) == [answer |-> Apology, sources |-> sources]
\* line 140
AnswerFailed(sources) == [answer |-> Apology, sources |-> <<>>]

\* line 136
Answered(pure_answer, sources) ==
    [answer |-> CleanedAnswer(pure_answer), sources |-> sources]

\* inputs of a turn
MaxRagHistory == 2
MaxRagChunks == 2

RagHistories == { h \in Histories : Len(h) <= MaxRagHistory }

RagChunks ==
    { [text |-> Run("a", 1), metadata |-> [doc_title |-> "DocA", chapter_title |-> "Ch1"]],
      [text |-> Run("d", 8000), metadata |-> [doc_title |-> "DocB"]],
      [text |-> Run("b", 4000)] }

RagChunkLists == UNION { [1..len -> RagChunks] : len \in 0..MaxRagChunks }

\* the completion gateway gives a text or fails
RagRewriteReplies == { <<"r">>, <<>>, LMFailed }

\* answers of the model: plain, with a trailing source sentence, with a source
\* sentence on a line of its own before more text, no content, or a failure
PureAnswers ==
    { <<"A">>,
      <<"A", "\n", "U+6765", "U+6E90", ":", "D">>,
      <<"U+8D44", "U+6599", "U+6765", "U+6E90", "U+FF1A", "D", "\n", "B", " ">>,
      NoneStr,
      LMFailed }

\* how search(rewritten_query, k=5) can go: "embedding", "dense" and "lexical"
\* failures are absorbed inside search, a raise of reranker.predict is not
SearchFailures == {"none", "embedding", "dense", "lexical", "reranker"}

otherThanRag ==
    <<sqlVars, valVars, searchVars, rerankVars, ctxVars, rewriteVars, cacheVars,
      hybridVars, normVars, extVars>>

\* line 113: self._rewrite_query(query, history)
RagRewrite ==
    /\ g_pc = "idle"
    /\ IF HistoryEmpty(g_history)
       THEN g_rewritten' = g_query /\ g_failed' = g_failed
       ELSE \E out \in RagRewriteReplies :
               /\ g_rewritten' = Rewritten("pipeline", g_query, out)
               /\ g_failed' = IF out = LMFailed THEN g_failed \cup {"rewrite_lm"}
                              ELSE g_failed
    /\ g_pc' = "search"
    /\ UNCHANGED <<g_query, g_history, g_chunks, g_context, g_sources, g_messages,
                   g_result, otherThanRag>>

\* line 114: self.search_engine.search(rewritten_query, k=5)
RagSearch ==
    /\ g_pc = "search"
    /\ \E failure \in SearchFailures, chunks \in RagChunkLists :
          /\ g_failed' = IF failure = "none" THEN g_failed ELSE g_failed \cup {failure}
          /\ IF failure = "reranker"
             THEN g_pc' = "raised" /\ g_chunks' = g_chunks
             ELSE /\ g_pc' = "context"
                  /\ g_chunks' = IF failure = "embedding" THEN <<>> ELSE chunks
    /\ UNCHANGED <<g_query, g_history, g_rewritten, g_context, g_sources, g_messages,
                   g_result, otherThanRag>>

\* lines 116-119: the context and the messages of the answering call
RagContext ==
    /\ g_pc = "context"
    /\ g_context' = IF g_chunks = <<>> THEN NoContextProvided
                    ELSE Join(Delimiter, ContextLocals(g_chunks).context_with_sources)
    /\ g_sources' = IF g_chunks = <<>> THEN <<>>
                    ELSE ContextLocals(g_chunks).sources_list
    /\ g_messages' = [system |-> "SYSTEM_PROMPT", history |-> g_history,
                      task |-> [context |-> g_context', query |-> g_query]]
    /\ g_pc' = "answer"
    /\ UNCHANGED <<g_query, g_history, g_rewritten, g_chunks, g_result, g_failed,
                   otherThanRag>>

\* lines 121-140: the answering call; a content that is None fails the slice of
\* line 129 inside the try
RagAnswer ==
    /\ g_pc = "answer"
    /\ \E pure_answer \in PureAnswers :
          IF pure_answer \in {LMFailed, NoneStr}
          THEN /\ g_result' = AnswerFailed(g_sources)
               /\ g_failed' = g_failed \cup {"answer_lm"}
          ELSE /\ g_result' = Answered(pure_answer, g_sources)
               /\ g_failed' = g_failed
    /\ g_pc' = "returned"
    /\ UNCHANGED <<g_query, g_history, g_rewritten, g_chunks, g_context, g_sources,
                   g_messages, otherThanRag>>

RagInit ==
    /\ g_query \in Queries
    /\ g_history \in RagHistories
    /\ g_pc = "idle" /\ g_rewritten = <<>> /\ g_chunks = <<>> /\ g_context = <<>>
    /\ g_sources = <<>> /\ g_messages = None /\ g_result = None /\ g_failed = {}
    /\ FlowAtRest /\ ValidateAtRest /\ SearchAtRest /\ RerankAtRest /\ ContextAtRest
    /\ RewriteAtRest /\ CacheAtRest /\ HybridAtRest /\ NormAtRest /\ ExtAtRest

RagNext == RagRewrite \/ RagSearch \/ RagContext \/ RagAnswer

RagSpec == RagInit /\ [][RagNext]_vars

\* the failures of the external calls of a turn: the completion gateway and the
\* embedding gateway
ExternalFailures == {"rewrite_lm", "embedding", "answer_lm"}

MaxSchemaCalls == 4

\* the schemas the database can hold
LiveSchemas == {"DDL1", "DDL2"}

\* what _fetch_from_db returns for a database holding live: the DDL text, or,
\* when the database fails, the "-- error" text of lines 124-130
FetchError == "-- FETCH ERROR"
FetchResults(live) == {live, FetchError}

\* how the write of lines 31-36 can go: the text is written, open() fails and
\* no file appears, or the write fails after open() has created the file
WriteOutcomes == {"written", "open_failed", "write_failed"}

FileAfterWrite(schema_str, write) ==
    CASE write = "written" -> schema_str
      [] write = "open_failed" -> Absent
      [] write = "write_failed" -> ""

\* an existence test that never finds the file
CacheExistsNever(file) == FALSE
\* os.path.exists(CACHE_FILE_PATH)
CacheExists(file) == file # Absent

otherThanCache ==
    <<sqlVars, valVars, searchVars, rerankVars, ctxVars, rewriteVars, ragVars,
      hybridVars, normVars, extVars>>

\* lines 22-38, as they act on the cache file
GetSchemaCall ==
    /\ sf_calls < MaxSchemaCalls
    /\ sf_calls' = sf_calls + 1
    /\ IF CacheExists(cache_file)
       THEN /\ cache_file' = cache_file
            /\ sf_last' = [op |-> "get", prev |-> sf_last.op, before |-> cache_file,
                           queried |-> FALSE, fetched |-> "", write |-> "none",
                           returned |-> cache_file, after |-> cache_file]
       ELSE \E schema_str \in FetchResults(db_schema_live), write \in WriteOutcomes :
               /\ cache_file' = FileAfterWrite(schema_str, write)
               /\ sf_last' = [op |-> "get", prev |-> sf_last.op, before |-> cache_file,
                              queried |-> TRUE, fetched |-> schema_str, write |-> write,
                              returned |-> schema_str, after |-> cache_file']
    /\ UNCHANGED db_schema_live

\* a call of get_schema_with_comments on its own
GetSchemaWithComments == GetSchemaCall /\ UNCHANGED otherThanCache

\* lines 43-49
ClearCache ==
    /\ sf_calls < MaxSchemaCalls
    /\ sf_calls' = sf_calls + 1
    /\ cache_file' = Absent
    /\ sf_last' = [op |-> "clear", prev |-> sf_last.op, before |-> cache_file,
                   queried |-> FALSE, fetched |-> "", write |-> "none",
                   returned |-> "", after |-> Absent]
    /\ UNCHANGED <<db_schema_live, otherThanCache>>

\* the database's schema changes (a table or a comment is altered)
AlterSchema ==
    /\ \E live \in LiveSchemas \ {db_schema_live} : db_schema_live' = live
    /\ UNCHANGED <<cache_file, sf_calls, sf_last, otherThanCache>>

\* the cache file is there from an earlier run of the service, or is not
CacheInit ==
    /\ cache_file \in LiveSchemas \cup {Absent, FetchError}
    /\ db_schema_live \in LiveSchemas
    /\ sf_calls = 0 /\ sf_last = NoCall
    /\ FlowAtRest /\ ValidateAtRest /\ SearchAtRest /\ RerankAtRest /\ ContextAtRest
    /\ RewriteAtRest /\ RagAtRest /\ HybridAtRest /\ NormAtRest /\ ExtAtRest

CacheNext == GetSchemaWithComments \/ ClearCache \/ AlterSchema

CacheSpec == CacheInit /\ [][CacheNext]_vars

\* what holds of every get_schema call whether or not the write succeeds
ReadThrough ==
    /\ sf_last.queried <=> (sf_last.before = Absent)
    /\ sf_last.before # Absent =>
           sf_last.returned = sf_last.before /\ sf_last.after = sf_last.before
    /\ sf_last.before = Absent => sf_last.returned = sf_last.fetched
    /\ sf_last.prev = "clear" => sf_last.queried

\* C14 as stated: a get_schema call queries the database exactly when the cache
\* file is absent; a hit returns the file's contents and leaves the database
\* alone; a miss fetches, persists the fetched text and returns it; the first
\* call after clear_cache is a miss.
C14_ReadThroughPersists ==
    sf_last.op = "get" =>
        /\ ReadThrough
        /\ sf_last.before = Absent => sf_last.after = sf_last.fetched

\* C14: the same, the fetched text being in the cache file after a miss unless
\* the write of the file failed, in which case the text is returned all the same.
C14_ReadThrough ==
    sf_last.op = "get" =>
        /\ ReadThrough
        /\ (sf_last.before = Absent /\ sf_last.write = "written") =>
               sf_last.after = sf_last.fetched

\* a miss right after clear_cache removed a file whose text the database no
\* longer holds
C14_Witness ==
    /\ sf_last.op = "get" /\ sf_last.prev = "clear"
    /\ sf_last.write = "written"
    /\ sf_last.returned = "DDL2"
    /\ cache_file = "DDL2"
    /\ sf_calls = 3

\* C28 as stated: the cache file only ever holds the DDL of a successful live
\* fetch: when the live fetch fails with a database error nothing is persisted,
\* so that a later get_schema_with_comments call queries the database again
\* instead of returning a cached error text.
C28_FailedFetchNotPersisted ==
    /\ (sf_last.op = "get" /\ sf_last.queried /\ sf_last.fetched = FetchError) =>
           sf_last.after = Absent
    /\ (sf_last.op = "get" /\ sf_last.prev = "get" /\ ~sf_last.queried) =>
           sf_last.returned # FetchError

(***************************************************************************)
(* HybridEngine: _router, execute and _execute_sql_and_format              *)
(* (hybrid_engine.py)                                                      *)
(***************************************************************************)
\* what the routing call gives: it raises; its content is not JSON; the JSON is
\* not an object (a list, a string, null); or the JSON is an object, without a
\* "tool" key, with "tool": null, or with a string under "tool"
RouterOutputs ==
    { [kind |-> "raised"], [kind |-> "malformed"], [kind |-> "not_object"],
      [kind |-> "object"],
      [kind |-> "object", tool |-> NoText],
      [kind |-> "object", tool |-> "rag_search"],
      [kind |-> "object", tool |-> "text_to_sql"],
      [kind |-> "object", tool |-> "web_search"] }

\* a router that falls back to the database path
RouterFallbackToSql == "text_to_sql"
\* line 104
RouterFallback == "rag_search"

\* lines 90-104: json.loads raises on a content that is not JSON, .get raises on
\* a JSON value that is not an object, and .get("tool", "rag_search") gives
\* whatever stands under "tool"
Router(out) ==
    IF out.kind # "object" THEN RouterFallback
    ELSE IF "tool" \notin DOMAIN out THEN "rag_search"
    ELSE out.tool

\* text_to_sql_engine.generate_sql(query, history): the candidate of steps 1-3
\* of the Text-to-SQL algorithm (rewrite, one completion call, punctuation
\* normalised), None when the call fails
GenerateSql(out) ==
    IF out = LMFailed THEN NoneStr ELSE NormalizeSqlPunctuation(Strip(out))

\* replies to the generation prompt on this path
HybridContents == LMContents \cup { LMFailed }

MaxHybridTurns == 2

\* lines 38-52: the SQLAlchemy engine is created, or the configuration fails
EngineOutcomes == {"engine", "config_error"}

\* the records execute returns
HybridCannotHandle == [answer |-> <<"SORRY_CANNOT_HANDLE">>, sources |-> <<>>]
HybridDatabaseAnswer(formatted_result, sql) ==
    [answer |-> <<formatted_result>>, sources |-> << [type |-> "database", query |-> sql] >>]
HybridSchemaAnswer(response) ==
    [answer |-> response, sources |-> << [type |-> "schema_info"] >>]
HybridRagAnswer == [answer |-> <<"RAG_ANSWER">>, sources |-> <<>>]

otherThanHybrid ==
    <<sqlVars, valVars, searchVars, rerankVars, ctxVars, rewriteVars, ragVars,
      cacheVars, normVars, extVars>>

\* line 110: tool_to_use = self._router(query)
HybridRoute ==
    /\ h_pc = "idle"
    /\ \E out \in RouterOutputs :
          /\ h_router_out' = out
          /\ tool_to_use' = Router(out)
    /\ h_pc' = "dispatch"
    /\ UNCHANGED <<h_response, h_result, h_turn, h_dispatch, h_sent, otherThanHybrid>>

\* lines 112-131 up to the execution of a statement
HybridDispatch ==
    /\ h_pc = "dispatch"
    /\ IF tool_to_use = "text_to_sql"
       THEN /\ h_dispatch' = "text_to_sql"
            /\ \E out \in HybridContents :
                  /\ h_response' = GenerateSql(out)
                  /\ IF Falsy(h_response')
                     THEN h_result' = HybridCannotHandle /\ h_pc' = "returned"
                     ELSE IF IsSql(h_response')
                     THEN h_result' = h_result /\ h_pc' = "execute_sql"
                     ELSE /\ h_result' = HybridSchemaAnswer(h_response')
                          /\ h_pc' = "returned"
       ELSE /\ h_dispatch' = "rag"
            /\ h_response' = h_response
            /\ h_result' = HybridRagAnswer
            /\ h_pc' = "returned"
    /\ UNCHANGED <<h_router_out, tool_to_use, h_turn, h_sent, otherThanHybrid>>

\* lines 33-68 and 125: _execute_sql_and_format and the return
HybridExecuteSql ==
    /\ h_pc = "execute_sql"
    /\ \E made \in EngineOutcomes, outcome \in DBOutcomes :
          IF made = "config_error"
          THEN /\ h_sent' = h_sent
               /\ h_result' = HybridDatabaseAnswer("CANNOT_CONNECT", h_response)
          ELSE /\ h_sent' = Append(h_sent, StatementSent(h_response))
               /\ h_result' = HybridDatabaseAnswer(
                      CASE outcome = "rows" -> "markdown table"
                        [] outcome = "empty" -> "NO_RECORDS_FOUND"
                        [] OTHER -> outcome,
                      h_response)
    /\ h_pc' = "returned"
    /\ UNCHANGED <<h_router_out, tool_to_use, h_response, h_turn, h_dispatch,
                   otherThanHybrid>>

\* the engine is called with the next query
HybridNextQuery ==
    /\ h_pc = "returned"
    /\ h_turn < MaxHybridTurns
    /\ h_turn' = h_turn + 1
    /\ h_pc' = "idle"
    /\ h_router_out' = None /\ tool_to_use' = NoText /\ h_response' = NoneStr
    /\ h_result' = None /\ h_dispatch' = "none"
    /\ UNCHANGED <<h_sent, otherThanHybrid>>

HybridInit ==
    /\ HybridAtRest
    /\ FlowAtRest /\ ValidateAtRest /\ SearchAtRest /\ RerankAtRest /\ ContextAtRest
    /\ RewriteAtRest /\ RagAtRest /\ CacheAtRest /\ NormAtRest /\ ExtAtRest

HybridNext == HybridRoute \/ HybridDispatch \/ HybridExecuteSql \/ HybridNextQuery

HybridSpec == HybridInit /\ [][HybridNext]_vars

\* C15: whatever the routing call gives, _router returns rag_search or
\* text_to_sql.
C15_RouterTwoValued ==
    h_pc # "idle" => tool_to_use \in {"rag_search", "text_to_sql"}

C19_HybridSqlValidated ==
    \A i \in 1..Len(h_sent) :
        /\ ValidateSql(h_sent[i])
        /\ ~HasWriteKeyword(h_sent[i])
        /\ SelectFirst(h_sent[i])

(***************************************************************************)
(* _normalize_sql_punctuation as a function of a candidate, next to the    *)
(* flow that applies it                                                    *)
(***************************************************************************)
MaxNormLen == 3

\* the half-width punctuation the claim lists, with the full-width forms of each
WideForms(c) ==
    CASE c = "(" -> {"U+FF08"}
      [] c = ")" -> {"U+FF09"}
      [] c = "'" -> {"U+2018", "U+2019"}
      [] c = "\"" -> {"U+201C", "U+201D"}
      [] c = ";" -> {"U+FF1B"}
      [] c = "," -> {"U+FF0C"}
      [] c = "=" -> {"U+FF1D"}
      [] OTHER -> {}

\* the backtick (U+0060), the fifth key of the replacements dict
Backtick == "U+0060"

\* the characters candidates are made of: the listed punctuation, the backtick,
\* a letter, a blank
NormChars == { <<"(">>, <<")">>, <<"'">>, <<"\"">>, <<";">>, <<",">>, <<"=">>,
               <<Backtick>>, <<"a">>, <<" ">> }

\* SELECT f(a),b FROM t WHERE c='x';
SelectWithPunctuation ==
    <<"S", "E", "L", "E", "C", "T", " ", "f", "(", "a", ")", ",", "b", " ",
      "F", "R", "O", "M", " ", "t", " ", "W", "H", "E", "R", "E", " ",
      "c", "=", "'", "x", "'", ";">>

AsciiCandidates == Compose(NormChars, MaxNormLen) \cup {SelectWithPunctuation}

RECURSIVE Widenings(_)
\* the ways of writing s with full-width punctuation: every listed character
\* stands as it is or in one of its full-width forms
Widenings(s) ==
    IF s = <<>> THEN { <<>> }
    ELSE { <<c>> \o rest : c \in WideForms(Head(s)) \cup {Head(s)},
                           rest \in Widenings(Tail(s)) }

NormalizeCandidate ==
    /\ n_pc = "idle"
    /\ n_result' = NormalizeSqlPunctuation(n_wide)
    /\ n_pc' = "done"
    /\ UNCHANGED <<n_ascii, n_wide, sqlVars, valVars, searchVars, rerankVars, ctxVars,
                   rewriteVars, ragVars, cacheVars, hybridVars, extVars>>

\* either the flow runs, or the normaliser is applied to a candidate
NormInit ==
    \/ Init
    \/ /\ n_ascii \in AsciiCandidates
       /\ n_wide \in Widenings(n_ascii)
       /\ n_pc = "idle" /\ n_result = <<>>
       /\ FlowAtRest /\ ValidateAtRest /\ SearchAtRest /\ RerankAtRest /\ ContextAtRest
       /\ RewriteAtRest /\ RagAtRest /\ CacheAtRest /\ HybridAtRest /\ ExtAtRest

NormNext == NormalizeCandidate \/ (NormAtRest /\ Next)

NormSpec == NormInit /\ [][NormNext]_vars

\* the half-width character a character stands for
HalfOf(c) ==
    IF \E h \in {"(", ")", "'", "\"", ";", ",", "="} : c \in WideForms(h)
    THEN CHOOSE h \in {"(", ")", "'", "\"", ";", ",", "="} : c \in WideForms(h)
    ELSE c

\* s with every full-width character of the list written half-width
HalfWidth(s) == [i \in 1..Len(s) |-> HalfOf(s[i])]

\* s with every backtick written as an apostrophe
Unbackticked(s) == [i \in 1..Len(s) |-> IF s[i] = Backtick THEN "'" ELSE s[i]]

\* in the flow, shape detection, validation and execution see the normalised
\* reply: the natural-language answer, the validated text and the executed text
\* are the reply written half-width
NormalisedBeforeUse ==
    /\ pc = "execute" =>
           /\ generated_sql = Unbackticked(HalfWidth(response_from_engine))
           /\ validated.sql = generated_sql
    /\ (pc = "done" /\ "type" \in DOMAIN result /\ result.type = "natural_language_answer") =>
           result.answer = Unbackticked(HalfWidth(response_from_engine))
    /\ \A i \in 1..Len(execLog) :
           /\ execLog[i].sql = HalfWidth(execLog[i].sql)
           /\ execLog[i].passed.sql = execLog[i].sql

\* C17 as stated: the normalised full-width writing of any candidate is the
\* candidate as authored half-width, and in the flow the normalisation comes
\* before shape detection, validation and execution.
C17_NormalisedEqualsAscii ==
    /\ n_pc = "done" => n_result = n_ascii
    /\ NormalisedBeforeUse

\* C17: the same for candidates without a backtick; a backtick of the candidate
\* comes out as an apostrophe.
C17_NormalisedEqualsAsciiButBacktick ==
    /\ n_pc = "done" => n_result = Unbackticked(n_ascii)
    /\ NormalisedBeforeUse

\* the long candidate, written with full-width punctuation throughout, has been
\* normalised
C17_Witness ==
    /\ n_pc = "done"
    /\ n_ascii = SelectWithPunctuation
    /\ \A i \in 1..Len(n_ascii) : WideForms(n_ascii[i]) # {} => n_wide[i] # n_ascii[i]
    /\ n_result = n_ascii

(***************************************************************************)
(* Further properties of run_text_to_sql_flow                              *)
(***************************************************************************)
\* an execution of this run raised a database error
ExecutionRaised == \E i \in 1..Len(execLog) : execLog[i].outcome \in DBErrors

\* C18: a run in which an execution raised a database error returns either
\* database_result or a database_error record that carries the last database
\* error and the SQL that raised it; never any other record.
C18_FailureNotSwallowed ==
    (pc = "done" /\ ExecutionRaised) =>
        /\ "type" \in DOMAIN result
        /\ \/ result.type = "database_result"
           \/ /\ result.type = "database_error"
              /\ result.error[2] = error_message
              /\ result.generated_sql = execLog[Len(execLog)].sql

\* the candidate the loop is about to look at is SQL-shaped and breaks the
\* validation rule
ValidationFails ==
    /\ pc = "loop"
    /\ attempt < MAX_RETRIES
    /\ IsSql(Unbackticked(HalfWidth(response_from_engine)))
    /\ \/ HasWriteKeyword(response_from_engine)
       \/ ~SelectFirst(response_from_engine)

\* C20: when a candidate, initial or repaired, fails validation, the run ends in
\* that step with an error record, nothing having been executed and no
\* completion call made; a run that has ended takes no further step.
C20_ValidationFailureIsTerminal ==
    [][ /\ ValidationFails =>
            /\ pc' = "done"
            /\ result' = DisallowedOperation
            /\ execLog' = execLog
            /\ repairCalls' = repairCalls
            /\ response_from_engine' = response_from_engine
        /\ pc = "done" => pc' = "generate" /\ execLog' = <<>> /\ repairCalls' = 0
      ]_vars

\* a repaired candidate failed validation
C20_Witness ==
    /\ pc = "done"
    /\ repairCalls = 1
    /\ Len(execLog) = 1
    /\ HasWriteKeyword(response_from_engine)
    /\ "type" \in DOMAIN result /\ result.type = "error"
    /\ result = DisallowedOperation

(***************************************************************************)
(* The components below leave everything modelled above alone              *)
(***************************************************************************)
baseVars ==
    <<sqlVars, valVars, searchVars, rerankVars, ctxVars, rewriteVars, ragVars,
      cacheVars, hybridVars, normVars>>

BaseAtRest ==
    /\ FlowAtRest /\ ValidateAtRest /\ SearchAtRest /\ RerankAtRest /\ ContextAtRest
    /\ RewriteAtRest /\ RagAtRest /\ CacheAtRest /\ HybridAtRest /\ NormAtRest

(***************************************************************************)
(* The /ask_rag handler (app.py) over the history kept in the session      *)
(***************************************************************************)
MaxSessionTurns == 3

\* self.SYSTEM_PROMPT
SystemPrompt == Message("system", <<"SYSTEM_PROMPT">>)

\* md.render(text): the text as an HTML paragraph
MdRender(text) == <<"<p>">> \o text \o <<"</p>", "\n">>

\* the opening of the citation list of line 92
SourcesHeader == <<"<p>", "<strong>", "REFERENCES", "</strong>", "</p>", "<ul>">>

RECURSIVE SourcesListItems(_)
\* line 91: one <li> per (doc, chap) pair
SourcesListItems(sources_data) ==
    IF sources_data = <<>> THEN <<>>
    ELSE <<"<li>", sources_data[1][1], sources_data[1][2], "</li>">>
         \o SourcesListItems(Tail(sources_data))

\* lines 88-92
SourcesHtml(sources_data) ==
    IF sources_data # <<>>
    THEN SourcesHeader \o SourcesListItems(sources_data) \o <<"</ul>">>
    ELSE <<>>

\* line 82
HistoryForLlm(history) == SelectSeq(history, LAMBDA msg : msg.role # "system")

\* engine.py line 118: the task prompt around the context and the query
TaskPrompt(query) == Message("user", <<"CONTEXT", "QUESTION">> \o query)

\* the message lists of the completion calls RAGPipeline.execute makes for a
\* query and a history: the rewriting call of lines 53-63, made when the
\* history is not empty, and the answering call of lines 119-127
CompletionCalls(query, history) ==
    (IF HistoryEmpty(history) THEN <<>>
     ELSE << LastFour(history) \o <<RewriteInstruction(query)>> >>)
    \o << <<SystemPrompt>> \o history \o <<TaskPrompt(query)>> >>

\* what execute can return to the handler
SessionSources ==
    { <<>>, << <<"DocA", "Ch1">> >>, << <<"DocA", "Ch1">>, <<"DocB", "NO_CHAPTER">> >> }

SessionResults ==
    { Answered(a, src) : a \in { <<"A">>, <<"B", "\n", "U+6765", "U+6E90", ":", "D">> },
                         src \in SessionSources }
    \cup { AnswerFailed(<<>>) }

otherThanSession ==
    <<baseVars, memoVars, concVars, startVars, frameVars, parseVars>>

\* lines 71-101, rag_pipeline being there
AskRag ==
    /\ ss_turn < MaxSessionTurns
    /\ ss_turn' = ss_turn + 1
    /\ \E user_query \in Queries, res \in SessionResults :
          LET history_for_llm == HistoryForLlm(ss_history)
              display_html == MdRender(res.answer) \o SourcesHtml(res.sources)
          IN  /\ ss_sent' = CompletionCalls(user_query, history_for_llm)
              /\ ss_history' = ss_history
                     \o << Message("user", user_query),
                           Message("assistant", display_html) >>
    /\ UNCHANGED otherThanSession

\* the /rag page has put the system prompt into the session (line 59)
SessionInit ==
    /\ ss_history = <<SystemPrompt>> /\ ss_sent = <<>> /\ ss_turn = 0
    /\ BaseAtRest /\ MemoAtRest /\ ConcAtRest /\ StartAtRest /\ FrameAtRest
    /\ ParseAtRest

SessionNext == AskRag

SessionSpec == SessionInit /\ [][SessionNext]_vars

\* the text holds the citation list the handler appends to an answer
HasCitationMarkup(content) == Contains(content, SourcesHeader)

\* C21 as stated: every assistant message of the conversation history that
\* reaches a language-model call (query rewriting or answer synthesis) has had
\* the programmatically appended citation markup removed.
C21_NoCitationMarkupReachesLM ==
    \A call \in 1..Len(ss_sent) : \A j \in 1..Len(ss_sent[call]) :
        ss_sent[call][j].role = "assistant" =>
            ~HasCitationMarkup(ss_sent[call][j].content)

(***************************************************************************)
(* TextToSQLEngine.db_schema (core/text_to_sql_engine.py): the schema text  *)
(* the prompts are built from, read through the engine's own copy and the  *)
(* schema cache file                                                       *)
(***************************************************************************)
MaxEngineSteps == 4

\* an engine that keeps no copy of its own
MemoEmptyAlways(cache) == TRUE
\* line 20: self._db_schema_cache is None
MemoEmpty(cache) == cache = NoText

otherThanMemo ==
    <<sqlVars, valVars, searchVars, rerankVars, ctxVars, rewriteVars, ragVars,
      hybridVars, normVars, sessVars, concVars, startVars, frameVars, parseVars>>

\* lines 11-16: the service starts (again) and constructs its engine
Construct ==
    /\ e_steps < MaxEngineSteps
    /\ e_steps' = e_steps + 1
    /\ db_schema_cache' = NoText
    /\ e_last' = [op |-> "construct", memo_before |-> db_schema_cache,
                  after_clear |-> sf_last.op = "clear", queried |-> FALSE,
                  fetched |-> "", returned |-> "", wrote_memo |-> TRUE,
                  wrote_file |-> FALSE]
    /\ UNCHANGED <<cacheVars, otherThanMemo>>

\* lines 18-22: a turn reads self.db_schema to build its generation or repair
\* prompt
ReadDbSchema ==
    /\ e_steps < MaxEngineSteps
    /\ e_steps' = e_steps + 1
    /\ IF MemoEmpty(db_schema_cache)
       THEN /\ GetSchemaCall
            /\ db_schema_cache' = sf_last'.returned
            /\ e_last' = [op |-> "read", memo_before |-> db_schema_cache,
                          after_clear |-> sf_last.op = "clear",
                          queried |-> sf_last'.queried,
                          fetched |-> sf_last'.fetched,
                          returned |-> sf_last'.returned, wrote_memo |-> TRUE,
                          wrote_file |-> cache_file' # cache_file]
       ELSE /\ e_last' = [op |-> "read", memo_before |-> db_schema_cache,
                          after_clear |-> sf_last.op = "clear", queried |-> FALSE,
                          fetched |-> "",
                          returned |-> db_schema_cache, wrote_memo |-> FALSE,
                          wrote_file |-> FALSE]
            /\ UNCHANGED <<db_schema_cache, cacheVars>>
    /\ UNCHANGED otherThanMemo

\* the engine is constructed; the cache file is there from an earlier run of
\* the service, or is not
MemoInit ==
    /\ db_schema_cache = NoText /\ e_last = NoRead /\ e_steps = 0
    /\ cache_file \in LiveSchemas \cup {Absent}
    /\ db_schema_live \in LiveSchemas
    /\ sf_calls = 0 /\ sf_last = NoCall
    /\ FlowAtRest /\ ValidateAtRest /\ SearchAtRest /\ RerankAtRest /\ ContextAtRest
    /\ RewriteAtRest /\ RagAtRest /\ HybridAtRest /\ NormAtRest
    /\ SessionAtRest /\ ConcAtRest /\ StartAtRest /\ FrameAtRest /\ ParseAtRest

MemoNext == Construct \/ ReadDbSchema \/ ClearCache \/ AlterSchema

MemoSpec == MemoInit /\ [][MemoNext]_vars

\* C23 as stated: after an explicit clear_cache, the next Text-to-SQL turn of an
\* already-constructed engine builds its prompts from a schema freshly fetched
\* from the database, not from the schema text it read before the purge.
C23_FreshSchemaAfterClear ==
    (e_last.op = "read" /\ e_last.after_clear) =>
        /\ e_last.queried
        /\ e_last.returned = e_last.fetched

\* C23: after an explicit clear_cache, a turn of an engine that holds no schema
\* text yet (one constructed since, at the next start of the service, or one
\* that has served no turn) fetches the schema from the database and builds its
\* prompts from what the fetch returned; an engine that has read its schema
\* before keeps building its prompts from the text it holds, purge or no purge.
C23_FreshSchemaForFirstRead ==
    e_last.op = "read" =>
        /\ (e_last.after_clear /\ e_last.memo_before = NoText) =>
               /\ e_last.queried
               /\ e_last.returned = e_last.fetched
        /\ e_last.memo_before # NoText =>
               /\ ~e_last.queried
               /\ e_last.returned = e_last.memo_before

\* the service is started again after a purge and reads the altered schema
C23_Witness ==
    /\ e_last.op = "read" /\ e_last.after_clear /\ e_last.memo_before = NoText
    /\ e_last.returned = "DDL2"
    /\ e_steps = 4
    /\ cache_file = "DDL2"

\* C24 as stated: while requests are served no request writes state shared
\* across requests: the engine's schema text and the schema cache file are
\* written during initialisation only.
C24_RequestsWriteNoSharedState ==
    [][ (e_steps' = e_steps + 1 /\ e_last'.op = "read") =>
            /\ db_schema_cache' = db_schema_cache
            /\ cache_file' = cache_file
      ]_vars

(***************************************************************************)
(* Two requests read TextToSQLEngine.db_schema side by side: the property  *)
(* (text_to_sql_engine.py 18-22) and get_schema_with_comments              *)
(* (schema_fetcher.py 22-38), one action per access to the shared engine   *)
(* field and to the cache file                                             *)
(***************************************************************************)
\* what a reader finds in a file whose writer has flushed part of its buffer
PartialText == "DD"

otherThanConc ==
    <<sqlVars, valVars, searchVars, rerankVars, ctxVars, rewriteVars, ragVars,
      hybridVars, normVars, sessVars, startVars, frameVars, parseVars,
      db_schema_live, sf_calls, sf_last, e_last, e_steps>>

\* text_to_sql_engine.py line 20
MemoTest(t) ==
    /\ t_pc[t] = "idle"
    /\ IF MemoEmpty(db_schema_cache)
       THEN t_pc' = [t_pc EXCEPT ![t] = "exists"] /\ t_ret' = t_ret
       ELSE /\ t_pc' = [t_pc EXCEPT ![t] = "done"]
            /\ t_ret' = [t_ret EXCEPT ![t] = db_schema_cache]
    /\ UNCHANGED <<t_schema_str, cache_file, db_schema_cache, otherThanConc>>

\* schema_fetcher.py line 23
ExistsTest(t) ==
    /\ t_pc[t] = "exists"
    /\ t_pc' = [t_pc EXCEPT ![t] = IF CacheExists(cache_file) THEN "read" ELSE "fetch"]
    /\ UNCHANGED <<t_schema_str, t_ret, cache_file, db_schema_cache, otherThanConc>>

\* lines 25-26: the file is read as it is at that moment
ReadFile(t) ==
    /\ t_pc[t] = "read"
    /\ t_schema_str' = [t_schema_str EXCEPT ![t] = cache_file]
    /\ t_pc' = [t_pc EXCEPT ![t] = "assign"]
    /\ UNCHANGED <<t_ret, cache_file, db_schema_cache, otherThanConc>>

\* line 29
FetchFromDb(t) ==
    /\ t_pc[t] = "fetch"
    /\ t_schema_str' = [t_schema_str EXCEPT ![t] = db_schema_live]
    /\ t_pc' = [t_pc EXCEPT ![t] = "open"]
    /\ UNCHANGED <<t_ret, cache_file, db_schema_cache, otherThanConc>>

\* line 32: open(..., 'w') creates the file, or empties the one that is there;
\* when it fails the except branch leads to the return
OpenForWrite(t) ==
    /\ t_pc[t] = "open"
    /\ \/ cache_file' = "" /\ t_pc' = [t_pc EXCEPT ![t] = "write"]
       \/ cache_file' = cache_file /\ t_pc' = [t_pc EXCEPT ![t] = "assign"]
    /\ UNCHANGED <<t_schema_str, t_ret, db_schema_cache, otherThanConc>>

\* line 33: f.write fills the buffer; none or part of it is in the file yet
WriteBuffer(t) ==
    /\ t_pc[t] = "write"
    /\ cache_file' \in {"", PartialText}
    /\ t_pc' = [t_pc EXCEPT ![t] = "close"]
    /\ UNCHANGED <<t_schema_str, t_ret, db_schema_cache, otherThanConc>>

\* the end of the with block: the buffer is flushed and the file closed
CloseFile(t) ==
    /\ t_pc[t] = "close"
    /\ cache_file' = t_schema_str[t]
    /\ t_pc' = [t_pc EXCEPT ![t] = "assign"]
    /\ UNCHANGED <<t_schema_str, t_ret, db_schema_cache, otherThanConc>>

\* text_to_sql_engine.py lines 21-22
AssignMemo(t) ==
    /\ t_pc[t] = "assign"
    /\ db_schema_cache' = t_schema_str[t]
    /\ t_ret' = [t_ret EXCEPT ![t] = t_schema_str[t]]
    /\ t_pc' = [t_pc EXCEPT ![t] = "done"]
    /\ UNCHANGED <<t_schema_str, cache_file, otherThanConc>>

\* a started service whose engine has read no schema yet, no cache file
ConcInit ==
    /\ ConcAtRest
    /\ db_schema_cache = NoText /\ e_last = NoRead /\ e_steps = 0
    /\ cache_file = Absent
    /\ db_schema_live \in LiveSchemas
    /\ sf_calls = 0 /\ sf_last = NoCall
    /\ FlowAtRest /\ ValidateAtRest /\ SearchAtRest /\ RerankAtRest /\ ContextAtRest
    /\ RewriteAtRest /\ RagAtRest /\ HybridAtRest /\ NormAtRest
    /\ SessionAtRest /\ StartAtRest /\ FrameAtRest /\ ParseAtRest

ConcNext ==
    \E t \in Threads :
        \/ MemoTest(t) \/ ExistsTest(t) \/ ReadFile(t) \/ FetchFromDb(t)
        \/ OpenForWrite(t) \/ WriteBuffer(t) \/ CloseFile(t) \/ AssignMemo(t)

ConcSpec == ConcInit /\ [][ConcNext]_vars

\* C29 as stated: when two requests call get_schema_with_comments concurrently
\* while the cache file is absent, every call returns the complete schema text:
\* no caller observes a cache file that exists but is still empty or partially
\* written, under any interleaving of the existence test, the write and the read.
C29_EveryCallReturnsCompleteSchema ==
    \A t \in Threads : t_pc[t] = "done" => t_ret[t] = db_schema_live

(***************************************************************************)
(* Module initialisation of app.py (lines 22-46), the launch of lines      *)
(* 215-223 and the guards of the request handlers                          *)
(***************************************************************************)
MaxRequests == 3

\* what the service finds when it starts: whether the knowledge-base artifacts
\* load, whether the Oracle settings are complete, and how it is launched (as
\* a script, or imported by a WSGI server)
StartConfigs == [kb : BOOLEAN, oracle : BOOLEAN, launch : {"script", "wsgi"}]

\* search_engine.py lines 28, 55-69: SearchEngine(...) does not raise;
\* faiss_index is None when the load failed
FaissIndexLoaded(config) == config.kb

\* engine.py lines 23-24: RAGPipeline(...) raises ValueError on an engine
\* without its index
RagPipelineRaises(faiss_loaded) == ~faiss_loaded

\* schema_fetcher.py lines 61-62
OracleSchemaFetcherRaises(config) == ~config.oracle

\* text_to_sql_engine.py line 11: the parameters without a default
TextToSQLEngineParams == {"schema_fetcher", "llm_client", "db_engine"}
\* app.py line 33: the keyword arguments given
TextToSQLEngineArgs == {"schema_fetcher", "llm_client"}
\* a call that leaves a required parameter out raises TypeError
TextToSQLEngineRaises == ~(TextToSQLEngineParams \subseteq TextToSQLEngineArgs)

\* lines 23-46: the globals after the try block; an exception leaves the
\* names assigned after it at None
GlobalsAfterInit(config) ==
    IF RagPipelineRaises(FaissIndexLoaded(config))
    THEN [rag_pipeline |-> FALSE, text_to_sql_engine |-> FALSE, db_engine |-> FALSE]
    ELSE IF OracleSchemaFetcherRaises(config) \/ TextToSQLEngineRaises
    THEN [rag_pipeline |-> TRUE, text_to_sql_engine |-> FALSE, db_engine |-> FALSE]
    ELSE [rag_pipeline |-> TRUE, text_to_sql_engine |-> TRUE, db_engine |-> TRUE]

Routes == {"/ask_rag", "/ask_sql", "/api/rag/ask", "/api/sql/ask"}
SqlRoutes == {"/ask_sql", "/api/sql/ask"}

\* the guard a handler opens with (lines 74, 107, 150, 168) and what it answers
Respond(route) ==
    LET ready == IF route \in SqlRoutes THEN text_to_sql_engine /\ a_db_engine
                 ELSE rag_pipeline
    IN  CASE ready -> "served"
          [] ~ready /\ route \in {"/ask_rag", "/ask_sql"} -> "redirect"
          [] ~ready /\ route \in {"/api/rag/ask", "/api/sql/ask"} -> "500"

otherThanStart ==
    <<baseVars, sessVars, memoVars, concVars, frameVars, parseVars>>

\* lines 22-46
ModuleInit ==
    /\ a_pc = "unloaded"
    /\ a_pc' = "imported"
    /\ rag_pipeline' = GlobalsAfterInit(a_config).rag_pipeline
    /\ text_to_sql_engine' = GlobalsAfterInit(a_config).text_to_sql_engine
    /\ a_db_engine' = GlobalsAfterInit(a_config).db_engine
    /\ UNCHANGED <<a_config, a_responses, otherThanStart>>

\* lines 215-223 when app.py is run as a script; a WSGI server serves the
\* imported application as it is
Launch ==
    /\ a_pc = "imported"
    /\ a_pc' = IF a_config.launch = "script"
                  /\ (~rag_pipeline \/ ~text_to_sql_engine \/ ~a_db_engine)
               THEN "not_started"
               ELSE "serving"
    /\ UNCHANGED <<a_config, rag_pipeline, text_to_sql_engine, a_db_engine,
                   a_responses, otherThanStart>>

\* a request to one of the four handlers
Request ==
    /\ a_pc = "serving"
    /\ Len(a_responses) < MaxRequests
    /\ \E route \in Routes :
          a_responses' = Append(a_responses, [route |-> route, status |-> Respond(route)])
    /\ UNCHANGED <<a_pc, a_config, rag_pipeline, text_to_sql_engine, a_db_engine,
                   otherThanStart>>

StartInit ==
    /\ a_config \in StartConfigs
    /\ a_pc = "unloaded"
    /\ rag_pipeline = FALSE /\ text_to_sql_engine = FALSE /\ a_db_engine = FALSE
    /\ a_responses = <<>>
    /\ BaseAtRest /\ SessionAtRest /\ MemoAtRest /\ ConcAtRest /\ FrameAtRest
    /\ ParseAtRest

StartNext == ModuleInit \/ Launch \/ Request

StartSpec == StartInit /\ [][StartNext]_vars

\* C25 as stated: a failure to load the knowledge-base artifacts degrades only
\* the retrieval path: the construction of SearchEngine does not raise, and at
\* service start the Text-to-SQL engine is still constructed and its requests
\* are still served.
C25_KbFailureDegradesOnlyRetrieval ==
    (a_pc # "unloaded" /\ ~a_config.kb /\ a_config.oracle) =>
        /\ text_to_sql_engine
        /\ a_pc # "not_started"
        /\ \A i \in 1..Len(a_responses) :
               a_responses[i].route \in SqlRoutes => a_responses[i].status = "served"

(***************************************************************************)
(* process_document_file (ingestion/parsers.py; ingest.py holds the same   *)
(* function): the grouping of the parsed elements into semantic blocks and *)
(* the cutting of the blocks into chunks                                   *)
(***************************************************************************)
MaxElements == 3

\* the elements partition() yields: text, titles, and tables whose HTML
\* pd.read_html can parse or not
Elements ==
    { [kind |-> "Text", text |-> t, html_ok |-> TRUE] : t \in { <<"a">>, <<" ">> } }
    \cup { [kind |-> "Title", text |-> <<"T", " ">>, html_ok |-> TRUE] }
    \cup { [kind |-> "Table", text |-> <<"t">>, html_ok |-> ok] : ok \in BOOLEAN }

ElementLists == UNION { [1..len -> Elements] : len \in 0..MaxElements }

\* (chunk_size, chunk_overlap): the defaults, and a size that cuts the blocks
ChunkParameters == { <<800, 200>>, <<4, 1>> }

\* line 49
DefaultTitle == <<"NO_CHAPTER_TITLE">>

\* "\n\n"
BlankLine == <<"\n", "\n">>

\* line 60: the table as markdown
TableMd(el) == <<"|">> \o el.text \o <<"|">>

\* line 61
FullTableContent(table_context, table_md) ==
    table_context \o BlankLine \o <<"TABLE_FOLLOWS">> \o BlankLine \o table_md
    \o BlankLine

\* lines 53-54, 70-71, 78-79
WithTextBlock(blocks, current_text_block, current_title) ==
    IF Strip(current_text_block) # <<>>
    THEN Append(blocks, [type |-> "text", content |-> Strip(current_text_block),
                         title |-> current_title])
    ELSE blocks

\* line 66 followed by line 67: the text of the table that failed to parse is
\* added to the current block, and the block is then reset
AfterTable(current_text_block, el) ==
    LET after_try == IF el.html_ok THEN current_text_block
                     ELSE current_text_block \o el.text \o BlankLine
        reset == <<>>
    IN  reset

RECURSIVE GroupElements(_, _, _)
\* the for loop of lines 51-76 from its i-th element on (i from 1)
GroupElements(elements, i, acc) ==
    IF i > Len(elements) THEN acc
    ELSE LET el == elements[i]
             flushed == WithTextBlock(acc.semantic_blocks, acc.current_text_block,
                                      acc.current_title)
             table_context == IF i > 1 /\ elements[i - 1].kind # "Title"
                              THEN elements[i - 1].text ELSE <<>>
         IN  GroupElements(elements, i + 1,
                CASE el.kind = "Table" ->
                       [semantic_blocks |->
                            IF el.html_ok
                            THEN Append(flushed,
                                    [type |-> "table",
                                     content |-> FullTableContent(table_context, TableMd(el)),
                                     title |-> acc.current_title])
                            ELSE flushed,
                        current_text_block |-> AfterTable(acc.current_text_block, el),
                        current_title |-> acc.current_title]
                  [] el.kind = "Title" ->
                       [semantic_blocks |-> flushed,
                        current_text_block |-> <<>>,
                        current_title |-> Strip(el.text)]
                  [] OTHER ->
                       [semantic_blocks |-> acc.semantic_blocks,
                        current_text_block |->
                            acc.current_text_block \o el.text \o BlankLine,
                        current_title |-> acc.current_title])

\* lines 47-79
SemanticBlocks(elements) ==
    LET acc == GroupElements(elements, 1,
                  [semantic_blocks |-> <<>>, current_text_block |-> <<>>,
                   current_title |-> DefaultTitle])
    IN  WithTextBlock(acc.semantic_blocks, acc.current_text_block, acc.current_title)

RECURSIVE SubChunks(_, _, _, _)
\* line 92: block_text[i:i + chunk_size] for i in range(0, len(block_text),
\* chunk_size - chunk_overlap), from the start i (from 0) on
SubChunks(block_text, i, chunk_size, chunk_overlap) ==
    IF i >= Len(block_text) THEN <<>>
    ELSE << SubSeq(block_text, i + 1, Min(i + chunk_size, Len(block_text))) >>
         \o SubChunks(block_text, i + chunk_size - chunk_overlap, chunk_size,
                      chunk_overlap)

RECURSIVE FinalChunks(_, _, _)
\* lines 87-102
FinalChunks(blocks, chunk_size, chunk_overlap) ==
    IF blocks = <<>> THEN <<>>
    ELSE LET sub_chunks == SubChunks(blocks[1].content, 0, chunk_size, chunk_overlap)
             kept == SelectSeq(sub_chunks, LAMBDA sub_chunk : Strip(sub_chunk) # <<>>)
         IN  [j \in 1..Len(kept) |->
                 [text |-> kept[j],
                  metadata |-> [chapter_title |-> blocks[1].title,
                                type |-> blocks[1].type]]]
             \o FinalChunks(Tail(blocks), chunk_size, chunk_overlap)

otherThanParse ==
    <<baseVars, sessVars, memoVars, concVars, startVars, frameVars>>

\* lines 35-105, partition() having parsed the file
ProcessDocumentFile ==
    /\ p_pc = "idle"
    /\ p_pc' = "done"
    /\ semantic_blocks' = SemanticBlocks(p_elements)
    /\ \E parameters \in ChunkParameters :
          final_chunks' = FinalChunks(semantic_blocks', parameters[1], parameters[2])
    /\ UNCHANGED <<p_elements, otherThanParse>>

ParseInit ==
    /\ p_elements \in ElementLists
    /\ p_pc = "idle" /\ semantic_blocks = <<>> /\ final_chunks = <<>>
    /\ BaseAtRest /\ SessionAtRest /\ MemoAtRest /\ ConcAtRest /\ StartAtRest
    /\ FrameAtRest

ParseNext == ProcessDocumentFile

ParseSpec == ParseInit /\ [][ParseNext]_vars

\* C27 as stated: when a Table element fails to parse, its text is treated as
\* ordinary text: it is appended to the current text block and appears in a
\* text block emitted afterwards, so that the element's content is not lost
\* from the chunks.
C27_FailedTableKeptAsText ==
    p_pc = "done" =>
        \A i \in 1..Len(p_elements) :
            (p_elements[i].kind = "Table" /\ ~p_elements[i].html_ok) =>
                /\ \E b \in 1..Len(semantic_blocks) :
                      /\ semantic_blocks[b].type = "text"
                      /\ Contains(semantic_blocks[b].content, Strip(p_elements[i].text))
                /\ \E ch \in 1..Len(final_chunks) :
                      Contains(final_chunks[ch].text, Strip(p_elements[i].text))

(***************************************************************************)
(* The history list of a call as a Python object: fr_heap holds the lists  *)
(* that exist, a reference is a position in it (0 is None), and the        *)
(* functions act on the lists the way their statements do                  *)
(***************************************************************************)
\* a new list object with the given contents
NewList(heap, contents) == [heap |-> Append(heap, contents), ref |-> Len(heap) + 1]

\* messages = history: a second name for the caller's list
SliceLastFourAliased(heap, ref) == [heap |-> heap, ref |-> ref]
\* history[-4:]: a slice is a new list
SliceLastFour(heap, ref) == NewList(heap, LastFour(heap[ref]))

\* list.append(item): the list object itself changes
ListAppend(heap, ref, item) == [heap EXCEPT ![ref] = Append(@, item)]

\* "history or []": the list itself unless it is None or empty
OrEmptyList(heap, ref) ==
    IF ref = 0 \/ heap[ref] = <<>> THEN NewList(heap, <<>>)
    ELSE [heap |-> heap, ref |-> ref]

\* query_rewriter.py lines 14-18: the slice, and the instruction appended to it
CoreMessages(heap, history, query) ==
    LET sliced == SliceLastFour(heap, history)
    IN  [heap |-> ListAppend(sliced.heap, sliced.ref, RewriteInstruction(query)),
         ref |-> sliced.ref]

RECURSIVE AppendEach(_, _, _)
\* engine.py lines 54-55: messages.append(message) for each message of a list
AppendEach(heap, messages, items) ==
    IF items = <<>> THEN heap
    ELSE AppendEach(ListAppend(heap, messages, items[1]), messages, Tail(items))

\* engine.py lines 53-58
PipelineMessages(heap, history, query) ==
    LET new == NewList(heap, <<>>)
        sliced == SliceLastFour(new.heap, history)
        copied == AppendEach(sliced.heap, new.ref, sliced.heap[sliced.ref])
    IN  [heap |-> ListAppend(copied, new.ref, RewriteInstruction(query)),
         ref |-> new.ref]

\* engine.py line 119: list + list + list is a new list
MessagesForApi(heap, history, query) ==
    NewList(heap, <<SystemPrompt>> \o heap[history] \o <<TaskPrompt(query)>>)

FrameFunctions == {"rewrite_query_with_history", "execute", "run_text_to_sql_flow"}

otherThanFrame ==
    <<baseVars, sessVars, memoVars, concVars, startVars, parseVars>>

\* a caller makes its history list and calls one of the functions with it;
\* run_text_to_sql_flow may be called without a history (None)
FrameCall ==
    /\ fr_pc \in {"idle", "returned"}
    /\ \E fn \in FrameFunctions, h \in Histories, none \in BOOLEAN :
          /\ none => (fn = "run_text_to_sql_flow" /\ h = <<>>)
          /\ fr_fn' = fn
          /\ fr_heap' = <<h>>
          /\ fr_history' = IF none THEN 0 ELSE 1
          /\ fr_before' = h
    /\ fr_messages' = 0
    /\ fr_fallback' = FALSE
    /\ fr_pc' = "rewrite"
    /\ UNCHANGED otherThanFrame

\* the rewriting: rewrite_query_with_history (query_rewriter.py 10-31), reached
\* from run_text_to_sql_flow through "history or []" (text_to_sql_engine.py
\* 141), or _rewrite_query (engine.py 48-72) for execute; the completion call
\* gives a text or raises
FrameRewrite ==
    /\ fr_pc = "rewrite"
    /\ \E query \in Queries, raised \in BOOLEAN :
          LET passed == IF fr_fn = "run_text_to_sql_flow"
                        THEN OrEmptyList(fr_heap, fr_history)
                        ELSE [heap |-> fr_heap, ref |-> fr_history]
          IN  IF HistoryEmpty(passed.heap[passed.ref])
              THEN /\ fr_heap' = passed.heap
                   /\ fr_messages' = 0
                   /\ fr_fallback' = FALSE
              ELSE LET built == IF fr_fn = "execute"
                                THEN PipelineMessages(passed.heap, passed.ref, query)
                                ELSE CoreMessages(passed.heap, passed.ref, query)
                   IN  /\ fr_heap' = built.heap
                       /\ fr_messages' = built.ref
                       /\ fr_fallback' = raised
    /\ fr_pc' = CASE fr_fn = "rewrite_query_with_history" -> "returned"
                  [] fr_fn = "execute" -> "answer"
                  [] fr_fn = "run_text_to_sql_flow" -> "flow"
    /\ UNCHANGED <<fr_fn, fr_history, fr_before, otherThanFrame>>

\* engine.py lines 114-140: the messages of the answering call; the call gives
\* an answer or raises
FrameAnswer ==
    /\ fr_pc = "answer"
    /\ \E query \in Queries, raised \in BOOLEAN :
          LET built == MessagesForApi(fr_heap, fr_history, query)
          IN  /\ fr_heap' = built.heap
              /\ fr_messages' = built.ref
              /\ fr_fallback' = (fr_fallback \/ raised)
    /\ fr_pc' = "returned"
    /\ UNCHANGED <<fr_fn, fr_history, fr_before, otherThanFrame>>

\* text_to_sql_engine.py lines 143-179: the rest of the flow does not use the
\* history
FrameFlow ==
    /\ fr_pc = "flow"
    /\ fr_pc' = "returned"
    /\ UNCHANGED <<fr_fn, fr_heap, fr_history, fr_messages, fr_before, fr_fallback,
                   otherThanFrame>>

FrameInit ==
    /\ FrameAtRest
    /\ BaseAtRest /\ SessionAtRest /\ MemoAtRest /\ ConcAtRest /\ StartAtRest
    /\ ParseAtRest

FrameNext == FrameCall \/ FrameRewrite \/ FrameAnswer \/ FrameFlow

FrameSpec == FrameInit /\ [][FrameNext]_vars

\* C26: the history list passed to rewrite_query_with_history,
\* RAGPipeline.execute or run_text_to_sql_flow is not mutated by the call: at
\* every point of the call and on return, by the normal or by a fallback path,
\* it has the same length and the same messages in the same order as when the
\* call was made.
C26_HistoryNotMutated ==
    (fr_pc # "idle" /\ fr_history # 0) => fr_heap[fr_history] = fr_before

\* rewrite_query_with_history has returned by its fallback path, having built
\* its five messages from a history of five
C26_Witness ==
    /\ fr_pc = "returned"
    /\ fr_fn = "rewrite_query_with_history"
    /\ fr_fallback
    /\ Len(fr_before) = 5
    /\ fr_messages # fr_history
    /\ Len(fr_heap[fr_messages]) = 5

====
